---- MODULE Spec2Model ----
(***************************************************************************)
(* Model of libs/langchain-mistralai/src/chat_models.ts: the translation   *)
(* of framework messages into Mistral request messages, the decoding of a  *)
(* complete response and of streamed deltas, and the aggregation of the    *)
(* streamed chunks in ChatMistralAI._generate.                             *)
(*                                                                         *)
(* JavaScript values are encoded as follows.  A value that may be absent   *)
(* (undefined or null) is the string Undefined or, for numbers and lists,  *)
(* a record with a `has` flag.  A function that may throw returns a record *)
(* [ok, value, error]: ok = FALSE stands for the thrown Error and `error`  *)
(* is its message.                                                         *)
(***************************************************************************)
EXTENDS Integers, Sequences, FiniteSets, TLC

VARIABLES
    \* convertMessagesToMistralMessages.getRole / getContent on one content
    cRole, cContent, cOut,
    \* convertMessagesToMistralMessages on a message list
    bMessages, bOut,
    \* _convertDeltaToMessageChunk on one delta
    dDelta, dUsage, dOut,
    \* mistralAIResponseToChatMessage on one choice
    rChoice, rUsage, rOut,
    \* one streaming call of ChatMistralAI._generate
    call, aborted,
    \* the start of one call of _generate, up to the call of the transport
    req,
    \* one non-streaming call of _generate on a complete response
    gResponse, gOut,
    \* two streaming calls of _generate on one model instance
    calls, arena,
    \* the catch block of completionWithRetry on one transport error
    tError, tOut,
    \* one structured-output pipeline: its configuration and one run of it
    sInput, sOut,
    \* _convertToolToMistralTool applied to a list of tool descriptors
    vTools, vOut,
    \* the HTTP hooks of one model instance
    hk

contentVars == <<cRole, cContent, cOut>>
buildVars == <<bMessages, bOut>>
deltaVars == <<dDelta, dUsage, dOut>>
decodeVars == <<rChoice, rUsage, rOut>>
streamVars == <<call, aborted>>
requestVars == <<req>>
generateVars == <<gResponse, gOut>>
concurrentVars == <<calls, arena>>
transportVars == <<tError, tOut>>
structVars == <<sInput, sOut>>
toolVars == <<vTools, vOut>>
hookVars == <<hk>>
lateVars == <<structVars, toolVars, hookVars>>
extVars == <<requestVars, generateVars, concurrentVars, transportVars, lateVars>>
vars == <<cRole, cContent, cOut, bMessages, bOut, dDelta, dUsage, dOut,
          rChoice, rUsage, rOut, call, aborted, req, gResponse, gOut,
          calls, arena, tError, tOut, sInput, sOut, vTools, vOut, hk>>

----------------------------------------------------------------------------
(* Bounds of the model *)

\* longest content-part sequence of a message content
MaxParts == 2
\* longest message list handed to convertMessagesToMistralMessages
MaxMsgs == 2
\* longest tool-call list of a delta or of a response message
MaxCalls == 2
\* most events a stream delivers
MaxEvents == 3
\* largest choice index of a stream event
MaxIndex == 2
\* most events each of two concurrent calls takes from its stream
MaxCallEvents == 2
\* most choices of a complete response
MaxChoices == 2
\* most tokens of the message of a transport error
MaxTokens == 4
\* longest list of tool descriptors handed to _convertToolToMistralTool
MaxTools == 2
\* longest configured list of hooks of one kind
MaxHooks == 2
\* most addAllHooksToHttpClient and removeAllHooksFromHttpClient calls on an instance
MaxHookCalls == 3

----------------------------------------------------------------------------
(* Common encodings *)

Undefined == "<undefined>"
Null == [kind |-> "null"]
NotRun == [ok |-> FALSE, value |-> Null, error |-> "<not run>"]

Return(v) == [ok |-> TRUE, value |-> v, error |-> ""]
Throw(msg) == [ok |-> FALSE, value |-> Null, error |-> msg]

SeqsUpTo(S, n) == UNION {[1..k -> S] : k \in 0..n}

----------------------------------------------------------------------------
(* convertMessagesToMistralMessages: getRole *)

KnownTypes == {"human", "ai", "system", "tool", "function"}
\* "generic" and "remove" are MessageType values getRole has no case for
MessageTypes == KnownTypes \cup {"generic", "remove"}

getRoleAllUser(role) ==
    IF role \in KnownTypes THEN Return("user")
    ELSE Throw("Unknown message type: " \o role)

getRole(role) ==
    CASE role = "human" -> Return("user")
      [] role = "ai" -> Return("assistant")
      [] role = "system" -> Return("system")
      [] role = "tool" -> Return("tool")
      [] role = "function" -> Return("assistant")
      [] OTHER -> Throw("Unknown message type: " \o role)

----------------------------------------------------------------------------
(* convertMessagesToMistralMessages: getContent *)

PartTypes == {"text", "image_url", "input_audio"}
Parts == [type : PartTypes, text : {Undefined, "t"}, image_url : {Undefined, "u"}]

StringContent(s) == [kind |-> "string", text |-> s, parts |-> <<>>]
ArrayContent(ps) == [kind |-> "array", text |-> "", parts |-> ps]
\* content that is neither a string nor an array
ObjectContent == [kind |-> "object", text |-> "", parts |-> <<>>]

Contents ==
    {StringContent(s) : s \in {"", "hi"}}
        \cup {ArrayContent(ps) : ps \in SeqsUpTo(Parts, MaxParts)}
        \cup {ObjectContent}

OnlySupportsError == "ChatMistralAI only supports messages of type MessageContentText for role human and system and MessageContentImageUrl for role human"
NonTextError == "ChatMistralAI does not support non text message content for role ai, tool, or function"

TextChunk(t) == [type |-> "text", text |-> t, imageUrl |-> Undefined]
ImageChunk(u) == [type |-> "image_url", text |-> Undefined, imageUrl |-> u]

generateContentChunkNoRole(complex, role) ==
    IF complex.type = "image_url"
    THEN Return(ImageChunk(complex.image_url))
    ELSE IF complex.type = "text"
    THEN Return(TextChunk(complex.text))
    ELSE Throw(OnlySupportsError)

generateContentChunk(complex, role) ==
    IF complex.type = "image_url" /\ role = "user"
    THEN Return(ImageChunk(complex.image_url))
    ELSE IF complex.type = "text" /\ (role = "user" \/ role = "system")
    THEN Return(TextChunk(complex.text))
    ELSE Throw(OnlySupportsError)

\* content.map(...): the first part that throws ends the map
MapChunks(parts, mistralRole) ==
    LET chunks == [i \in DOMAIN parts |-> generateContentChunk(parts[i], mistralRole)]
    IN  IF \E i \in DOMAIN parts : ~chunks[i].ok
        THEN Throw(OnlySupportsError)
        ELSE Return(ArrayContent([i \in DOMAIN parts |-> chunks[i].value]))

\* a translator that turns a string under user into a one-chunk list
getContentStringAsChunk(content, role) ==
    LET mistralRole == getRole(role)
    IN  IF ~mistralRole.ok THEN Throw(mistralRole.error)
        ELSE IF content.kind = "string"
        THEN IF mistralRole.value = "user"
             THEN Return(ArrayContent(<<TextChunk(content.text)>>))
             ELSE Return(content)
        ELSE IF content.kind = "array" THEN MapChunks(content.parts, mistralRole.value)
        ELSE Throw(NonTextError)

getContent(content, role) ==
    LET mistralRole == getRole(role)
    IN  IF ~mistralRole.ok THEN Throw(mistralRole.error)
        ELSE IF content.kind = "string" THEN Return(content)
        ELSE IF content.kind = "array" THEN MapChunks(content.parts, mistralRole.value)
        ELSE Throw(NonTextError)

\* the copy of getContent at the head of the file (lines 185-243)
getContentEarlier(content, role) ==
    LET mistralRole == getRole(role)
        userChunk(p) ==
            IF p.type = "image_url" THEN Return(ImageChunk(p.image_url))
            ELSE IF p.type = "text" THEN Return(TextChunk(p.text))
            ELSE Throw(OnlySupportsError)
        systemChunk(p) ==
            IF p.type = "text" THEN Return(TextChunk(p.text))
            ELSE Throw(OnlySupportsError)
        mapped(f(_)) ==
            LET chunks == [i \in DOMAIN content.parts |-> f(content.parts[i])]
            IN  IF \E i \in DOMAIN content.parts : ~chunks[i].ok
                THEN Throw(OnlySupportsError)
                ELSE Return(ArrayContent([i \in DOMAIN content.parts |-> chunks[i].value]))
    IN  IF ~mistralRole.ok THEN Throw(mistralRole.error)
        ELSE IF content.kind = "string" THEN Return(content)
        ELSE IF content.kind = "array" /\ mistralRole.value = "user" THEN mapped(userChunk)
        ELSE IF content.kind = "array" /\ mistralRole.value = "system" THEN mapped(systemChunk)
        ELSE Throw(NonTextError)

----------------------------------------------------------------------------
(* convertMessagesToMistralMessages: getTools and the message map *)

\* ./utils.js _convertToolCallIdToMistralCompatible: an id that already has
\* the provider's format (9 characters of [a-zA-Z0-9]) is returned as it is,
\* any other id is replaced by a 9-character digest of it
convertToolCallIdToMistralCompatible(id) ==
    CASE id = "abcdefgh9" -> "abcdefgh9"
      [] id = "call_1" -> "0Hc4ll1x7"
      [] OTHER -> "000empty0"

ArgsValues == {"args:{}", "args:{location}"}
JsonStringify(args) ==
    IF args = "args:{}" THEN "{}" ELSE "{\"location\":\"Paris\"}"

\* a structured tool call of an AIMessage
ToolCalls == [id : {Undefined, "call_1", "abcdefgh9"}, name : {"get_weather"}, args : ArgsValues]
\* an OpenAI-format tool call of additional_kwargs.tool_calls
LegacyToolCalls == [id : {"call_1", "abcdefgh9"}, name : {"get_weather"}, arguments : {"{}"}]

ProviderToolCall(id, name, arguments) ==
    [id |-> id, type |-> "function", name |-> name, arguments |-> arguments]

\* @langchain/core convertLangChainToolCallToOpenAI
convertLangChainToolCallToOpenAI(toolCall) ==
    ProviderToolCall(toolCall.id, toolCall.name, JsonStringify(toolCall.args))

NoToolCalls == [has |-> FALSE, list |-> <<>>]
SomeToolCalls(l) == [has |-> TRUE, list |-> l]

isAIMessage(message) == message.type = "ai"

\* a getTools that looks at the legacy metadata tool calls first
getToolsLegacyFirst(message) ==
    IF Len(message.kwargs_tool_calls) > 0
    THEN SomeToolCalls([i \in DOMAIN message.kwargs_tool_calls |->
            ProviderToolCall(
                convertToolCallIdToMistralCompatible(message.kwargs_tool_calls[i].id),
                message.kwargs_tool_calls[i].name,
                message.kwargs_tool_calls[i].arguments)])
    ELSE IF isAIMessage(message) /\ Len(message.tool_calls) > 0
    THEN SomeToolCalls([i \in DOMAIN message.tool_calls |->
            convertLangChainToolCallToOpenAI(
                [message.tool_calls[i] EXCEPT !.id =
                    convertToolCallIdToMistralCompatible(
                        IF @ = Undefined THEN "" ELSE @)])])
    ELSE NoToolCalls

getTools(message) ==
    IF isAIMessage(message) /\ Len(message.tool_calls) > 0
    THEN SomeToolCalls([i \in DOMAIN message.tool_calls |->
            convertLangChainToolCallToOpenAI(
                [message.tool_calls[i] EXCEPT !.id =
                    convertToolCallIdToMistralCompatible(
                        IF @ = Undefined THEN "" ELSE @)])])
    ELSE IF Len(message.kwargs_tool_calls) = 0
    THEN NoToolCalls
    ELSE SomeToolCalls([i \in DOMAIN message.kwargs_tool_calls |->
            ProviderToolCall(
                convertToolCallIdToMistralCompatible(message.kwargs_tool_calls[i].id),
                message.kwargs_tool_calls[i].name,
                message.kwargs_tool_calls[i].arguments)])

\* the provider message built by one step of messages.map
ToolResultMessage(role, content, name, toolCallId) ==
    [shape |-> "toolResult", role |-> role, content |-> content, name |-> name,
     toolCallId |-> toolCallId, toolCalls |-> NoToolCalls]
AssistantMessage(role, content, toolCalls) ==
    [shape |-> "assistant", role |-> role, content |-> content, name |-> Undefined,
     toolCallId |-> Undefined, toolCalls |-> toolCalls]
PlainMessage(role, content) ==
    [shape |-> "plain", role |-> role, content |-> content, name |-> Undefined,
     toolCallId |-> Undefined, toolCalls |-> NoToolCalls]

\* a map callback that tests isAIMessage before the tool_call_id
convertMessageAssistantFirst(message) ==
    LET content == getContent(message.content, message.type)
        role == getRole(message.type)
    IN  IF ~content.ok THEN Throw(content.error)
        ELSE IF isAIMessage(message)
        THEN Return(AssistantMessage(role.value, content.value, getTools(message)))
        ELSE IF message.tool_call_id # Undefined
        THEN Return(ToolResultMessage(role.value, content.value, message.name,
                        convertToolCallIdToMistralCompatible(message.tool_call_id)))
        ELSE Return(PlainMessage(role.value, content.value))

convertMessage(message) ==
    LET toolCalls == getTools(message)
        content == getContent(message.content, message.type)
        role == getRole(message.type)
    IN  IF ~content.ok THEN Throw(content.error)
        ELSE IF message.tool_call_id # Undefined
        THEN Return(ToolResultMessage(role.value, content.value, message.name,
                        convertToolCallIdToMistralCompatible(message.tool_call_id)))
        ELSE IF isAIMessage(message)
        THEN Return(AssistantMessage(role.value, content.value, toolCalls))
        ELSE Return(PlainMessage(role.value, content.value))

\* a builder that leaves the system messages out of the list
convertMessagesDropSystem(messages) ==
    LET out == [i \in DOMAIN messages |-> convertMessage(messages[i])]
        keep == SelectSeq(messages, LAMBDA m : m.type # "system")
    IN  IF \E i \in DOMAIN messages : ~out[i].ok
        THEN Throw(out[CHOOSE i \in DOMAIN messages :
                        ~out[i].ok /\ \A j \in 1..(i - 1) : out[j].ok].error)
        ELSE Return([i \in DOMAIN keep |-> convertMessage(keep[i]).value])

\* messages.map(...): the messages are converted in order and the first
\* conversion that throws ends the call
convertMessagesToMistralMessages(messages) ==
    LET out == [i \in DOMAIN messages |-> convertMessage(messages[i])]
    IN  IF \E i \in DOMAIN messages : ~out[i].ok
        THEN Throw(out[CHOOSE i \in DOMAIN messages :
                        ~out[i].ok /\ \A j \in 1..(i - 1) : out[j].ok].error)
        ELSE Return([i \in DOMAIN messages |-> out[i].value])

----------------------------------------------------------------------------
(* Token usage and synthesized ids *)

NoUsage == [has |-> FALSE, promptTokens |-> 0, completionTokens |-> 0, totalTokens |-> 0]
Usage(p, c) == [has |-> TRUE, promptTokens |-> p, completionTokens |-> c, totalTokens |-> p + c]
Usages == {NoUsage, Usage(3, 10)}

\* a field of TokenUsage: unset until a truthy count is added to it
Unset == [has |-> FALSE, val |-> 0]
EmptyTokenUsage ==
    [completionTokens |-> Unset, promptTokens |-> Unset, totalTokens |-> Unset]
\* if (n) { field = (field ?? 0) + n }
AddIfTruthy(field, n) == IF n = 0 THEN field ELSE [has |-> TRUE, val |-> field.val + n]
\* response?.usage ?? {} added to tokenUsage
AddUsage(tokenUsage, usage) ==
    [completionTokens |-> AddIfTruthy(tokenUsage.completionTokens, usage.completionTokens),
     promptTokens |-> AddIfTruthy(tokenUsage.promptTokens, usage.promptTokens),
     totalTokens |-> AddIfTruthy(tokenUsage.totalTokens, usage.totalTokens)]

NoUsageMetadata == [has |-> FALSE, input_tokens |-> 0, output_tokens |-> 0, total_tokens |-> 0]
\* usage ? {input_tokens, output_tokens, total_tokens} : undefined
UsageMetadata(usage) ==
    IF usage.has
    THEN [has |-> TRUE, input_tokens |-> usage.promptTokens,
          output_tokens |-> usage.completionTokens, total_tokens |-> usage.totalTokens]
    ELSE NoUsageMetadata

\* the values uuidv4().replace(/-/g, "") may return
FreshIds == {"uuid1", "uuid2"}
UuidDraws == [1..MaxCalls -> FreshIds]

----------------------------------------------------------------------------
(* _convertDeltaToMessageChunk *)

\* function.arguments of a raw tool call: absent, a string, or an object
IsObjectArguments(a) == a \in ArgsValues

DeltaToolCalls == [id : {Undefined, "id1"}, name : {"f", "g"}, arguments : {Undefined, "{}", "args:{location}"}]
DeltaRoles == {Undefined, "", "user", "assistant", "tool", "function", "system"}
DeltaContents == {Undefined, "", "a"}
AbsentList == [has |-> FALSE, list |-> <<>>]
PresentList(l) == [has |-> TRUE, list |-> l]
Deltas ==
    [role : DeltaRoles, content : DeltaContents,
     toolCalls : {AbsentList} \cup {PresentList(l) : l \in SeqsUpTo(DeltaToolCalls, MaxCalls)}]

\* JavaScript truthiness of a string that may be absent
Truthy(s) == s # Undefined /\ s # ""

NoChunk == [some |-> FALSE, kind |-> "none", content |-> "", role |-> "",
            tool_call_chunks |-> <<>>, usage_metadata |-> NoUsageMetadata,
            tool_call_id |-> Undefined]
MessageChunk(kind, role, content, toolCallChunks, usageMetadata, toolCallId) ==
    [some |-> TRUE, kind |-> kind, content |-> content, role |-> role,
     tool_call_chunks |-> toolCallChunks, usage_metadata |-> usageMetadata,
     tool_call_id |-> toolCallId]

ToolCallChunk(name, args, id, index) ==
    [name |-> name, args |-> args, id |-> id, index |-> index, type |-> "tool_call_chunk"]

\* fragments numbered from one
ToolCallChunksOfOneBased(toolCalls, uuids) ==
    [i \in DOMAIN toolCalls |->
        ToolCallChunk(
            toolCalls[i].name,
            IF IsObjectArguments(toolCalls[i].arguments)
                THEN JsonStringify(toolCalls[i].arguments)
                ELSE toolCalls[i].arguments,
            IF toolCalls[i].id = Undefined THEN uuids[i] ELSE toolCalls[i].id,
            i)]

\* lines 1705-1737: the fragments of delta.toolCalls, each with its position
\* and with a synthesized id when the provider gave none
ToolCallChunksOf(toolCalls, uuids) ==
    [i \in DOMAIN toolCalls |->
        ToolCallChunk(
            toolCalls[i].name,
            IF IsObjectArguments(toolCalls[i].arguments)
                THEN JsonStringify(toolCalls[i].arguments)
                ELSE toolCalls[i].arguments,
            IF toolCalls[i].id = Undefined THEN uuids[i] ELSE toolCalls[i].id,
            i - 1)]

\* a decoder whose default role is user
convertDeltaToMessageChunkUserDefault(delta, usage, uuids) ==
    LET \* delta.toolCalls?.length ? delta.toolCalls.map(...) : undefined
        withIndex == delta.toolCalls.has /\ Len(delta.toolCalls.list) > 0
        role == IF Truthy(delta.role) THEN delta.role ELSE "user"
        content == IF delta.content = Undefined THEN "" ELSE delta.content
        toolCallChunks == IF withIndex THEN ToolCallChunksOf(delta.toolCalls.list, uuids) ELSE <<>>
    IN  \* !delta.content && !delta.toolCalls: an empty array is truthy
        IF ~Truthy(delta.content) /\ ~delta.toolCalls.has
        THEN IF usage.has
             THEN MessageChunk("ai", "assistant", "", <<>>, UsageMetadata(usage), Undefined)
             ELSE NoChunk
        ELSE CASE role = "user" ->
                    MessageChunk("human", "user", content, <<>>, NoUsageMetadata, Undefined)
               [] role = "assistant" ->
                    MessageChunk("ai", "assistant", content, toolCallChunks, UsageMetadata(usage), Undefined)
               [] role = "tool" ->
                    MessageChunk("tool", "tool", content, <<>>, NoUsageMetadata,
                        IF withIndex THEN toolCallChunks[1].id ELSE "")
               [] role = "function" ->
                    MessageChunk("function", "function", content, <<>>, NoUsageMetadata, Undefined)
               [] OTHER ->
                    MessageChunk("chat", role, content, <<>>, NoUsageMetadata, Undefined)

convertDeltaToMessageChunk(delta, usage, uuids) ==
    LET \* delta.toolCalls?.length ? delta.toolCalls.map(...) : undefined
        withIndex == delta.toolCalls.has /\ Len(delta.toolCalls.list) > 0
        role == IF Truthy(delta.role) THEN delta.role ELSE "assistant"
        content == IF delta.content = Undefined THEN "" ELSE delta.content
        toolCallChunks == IF withIndex THEN ToolCallChunksOf(delta.toolCalls.list, uuids) ELSE <<>>
    IN  \* !delta.content && !delta.toolCalls: an empty array is truthy
        IF ~Truthy(delta.content) /\ ~delta.toolCalls.has
        THEN IF usage.has
             THEN MessageChunk("ai", "assistant", "", <<>>, UsageMetadata(usage), Undefined)
             ELSE NoChunk
        ELSE CASE role = "user" ->
                    MessageChunk("human", "user", content, <<>>, NoUsageMetadata, Undefined)
               [] role = "assistant" ->
                    MessageChunk("ai", "assistant", content, toolCallChunks, UsageMetadata(usage), Undefined)
               [] role = "tool" ->
                    MessageChunk("tool", "tool", content, <<>>, NoUsageMetadata,
                        IF withIndex THEN toolCallChunks[1].id ELSE "")
               [] role = "function" ->
                    MessageChunk("function", "function", content, <<>>, NoUsageMetadata, Undefined)
               [] OTHER ->
                    MessageChunk("chat", role, content, <<>>, NoUsageMetadata, Undefined)

----------------------------------------------------------------------------
(* mistralAIResponseToChatMessage *)

\* a raw tool call of a complete response message; `function` may be missing
ResponseToolCalls ==
    [id : {Undefined, "id1"}, hasFunction : {TRUE}, name : {"f", "g"},
     arguments : {"{}", "{\"a\":", "args:{location}"}]
    \cup
    [id : {Undefined, "id1"}, hasFunction : {FALSE}, name : {Undefined}, arguments : {Undefined}]

\* JSON.parse of function.arguments; an object is first turned into the
\* string "[object Object]", which is no JSON text
JsonParse(text) ==
    CASE text = "{}" -> Return("args:{}")
      [] text = "{\"location\":\"Paris\"}" -> Return("args:{location}")
      [] OTHER -> Throw("Unexpected token in JSON")

NoParsedCall == [defined |-> FALSE, name |-> Undefined, args |-> Undefined, id |-> Undefined]

\* @langchain/core parseToolCall(rawToolCall, {returnId: true}): undefined
\* when the call has no function, the parsed call when the arguments are
\* JSON, a thrown OutputParserException otherwise
parseToolCall(rawToolCall) ==
    IF ~rawToolCall.hasFunction THEN Return(NoParsedCall)
    ELSE LET functionArgs == JsonParse(rawToolCall.arguments)
         IN  IF ~functionArgs.ok
             THEN Throw("Failed to parse tool call: " \o functionArgs.error)
             ELSE Return([defined |-> TRUE, name |-> rawToolCall.name,
                          args |-> functionArgs.value, id |-> rawToolCall.id])

\* @langchain/core makeInvalidToolCall
makeInvalidToolCall(rawToolCall, errorMsg) ==
    [name |-> rawToolCall.name, args |-> rawToolCall.arguments, id |-> rawToolCall.id,
     error |-> errorMsg, type |-> "invalid_tool_call"]

ResponseRoles == {"assistant", "user", "tool"}
ResponseMessages ==
    [role : ResponseRoles, content : {Undefined, "hi"},
     toolCalls : {AbsentList} \cup {PresentList(l) : l \in SeqsUpTo(ResponseToolCalls, MaxCalls)}]
NoMessage == [role |-> Undefined, content |-> Undefined, toolCalls |-> AbsentList]
Choices ==
    [hasMessage : {TRUE}, message : ResponseMessages] \cup {[hasMessage |-> FALSE, message |-> NoMessage]}

ChatMessage(kind, content, toolCalls, invalidToolCalls, usageMetadata) ==
    [kind |-> kind, content |-> content, tool_calls |-> toolCalls,
     invalid_tool_calls |-> invalidToolCalls, usage_metadata |-> usageMetadata]

\* one pass of the try / catch in the loop over rawToolCalls: the call is
\* pushed on toolCalls, or the exception (of parseToolCall, or the TypeError
\* of reading parsed.id from undefined) is caught and the call is pushed on
\* invalidToolCalls
DecodedCall(rawToolCall, uuid) ==
    LET parsed == parseToolCall(rawToolCall)
    IN  IF ~parsed.ok
        THEN [valid |-> FALSE, call |-> NoParsedCall,
              invalid |-> makeInvalidToolCall(rawToolCall, parsed.error)]
        ELSE IF ~parsed.value.defined
        THEN [valid |-> FALSE, call |-> NoParsedCall,
              invalid |-> makeInvalidToolCall(rawToolCall,
                              "Cannot read properties of undefined (reading 'id')")]
        ELSE [valid |-> TRUE,
              call |-> [parsed.value EXCEPT !.id = IF @ = Undefined THEN uuid ELSE @],
              invalid |-> makeInvalidToolCall(rawToolCall, "")]

\* a decoder with no try / catch around parseToolCall
mistralAIResponseToChatMessageNoCatch(choice, usage, uuids) ==
    LET message == choice.message
        rawToolCalls == IF message.toolCalls.has THEN message.toolCalls.list ELSE <<>>
        decoded == [i \in DOMAIN rawToolCalls |-> DecodedCall(rawToolCalls[i], uuids[i])]
        content == IF message.content = Undefined THEN "" ELSE message.content
    IN  IF ~choice.hasMessage THEN Throw("No message found in response")
        ELSE IF message.role = "assistant"
        THEN IF \E i \in DOMAIN decoded : ~decoded[i].valid
             THEN Throw("Failed to parse tool call")
             ELSE Return(ChatMessage("ai", content,
                        [i \in DOMAIN decoded |-> decoded[i].call], <<>>, UsageMetadata(usage)))
        ELSE Return(ChatMessage("human", content, <<>>, <<>>, NoUsageMetadata))

\* a decoder that keeps the usage on the message of a non-assistant role
mistralAIResponseToChatMessageUsageKept(choice, usage, uuids) ==
    LET message == choice.message
        content == IF message.content = Undefined THEN "" ELSE message.content
    IN  IF ~choice.hasMessage THEN Throw("No message found in response")
        ELSE IF message.role = "assistant"
        THEN Return(ChatMessage("ai", content, <<>>, <<>>, UsageMetadata(usage)))
        ELSE Return(ChatMessage("human", content, <<>>, <<>>, UsageMetadata(usage)))

mistralAIResponseToChatMessage(choice, usage, uuids) ==
    LET message == choice.message
        rawToolCalls == IF message.toolCalls.has THEN message.toolCalls.list ELSE <<>>
        decoded == [i \in DOMAIN rawToolCalls |-> DecodedCall(rawToolCalls[i], uuids[i])]
        validAt == SelectSeq([i \in DOMAIN decoded |-> i], LAMBDA i : decoded[i].valid)
        invalidAt == SelectSeq([i \in DOMAIN decoded |-> i], LAMBDA i : ~decoded[i].valid)
        content == IF message.content = Undefined THEN "" ELSE message.content
    IN  IF ~choice.hasMessage THEN Throw("No message found in response")
        ELSE IF message.role = "assistant"
        THEN Return(ChatMessage("ai", content,
                [k \in DOMAIN validAt |-> decoded[validAt[k]].call],
                [k \in DOMAIN invalidAt |-> decoded[invalidAt[k]].invalid],
                UsageMetadata(usage)))
        ELSE Return(ChatMessage("human", content, <<>>, <<>>, NoUsageMetadata))

----------------------------------------------------------------------------
(* ChatGenerationChunk and its concat *)

Indices == 0..MaxIndex
AbsentIndex == [has |-> FALSE, val |-> 0]
PresentIndex(i) == [has |-> TRUE, val |-> i]

NoGenerationChunk == [some |-> FALSE, text |-> "", message |-> NoChunk, completion |-> 0]
ChatGenerationChunk(message, text, completion) ==
    [some |-> TRUE, text |-> text, message |-> message, completion |-> completion]

OrElse(a, b) == IF a = Undefined THEN b ELSE a
MergedFragment(l, r) ==
    ToolCallChunk(OrElse(l.name, r.name),
                  IF l.args = Undefined THEN r.args
                  ELSE IF r.args = Undefined THEN l.args ELSE l.args \o r.args,
                  OrElse(l.id, r.id), l.index)

\* @langchain/core: tool-call fragments are merged by their index, a fragment
\* with a new index is appended
RECURSIVE MergeToolCallChunks(_, _)
MergeToolCallChunks(left, right) ==
    IF right = <<>> THEN left
    ELSE LET r == Head(right)
             same == {j \in DOMAIN left : left[j].index = r.index}
         IN  IF same = {}
             THEN MergeToolCallChunks(Append(left, r), Tail(right))
             ELSE LET j == CHOOSE j \in same : \A k \in same : j <= k
                  IN  MergeToolCallChunks([left EXCEPT ![j] = MergedFragment(@, r)], Tail(right))

MergedUsage(a, b) ==
    IF ~a.has THEN b
    ELSE IF ~b.has THEN a
    ELSE [has |-> TRUE, input_tokens |-> a.input_tokens + b.input_tokens,
          output_tokens |-> a.output_tokens + b.output_tokens,
          total_tokens |-> a.total_tokens + b.total_tokens]

\* @langchain/core ChatGenerationChunk.concat: the texts and the message
\* contents are concatenated, left operand first
ChunkConcat(a, b) ==
    ChatGenerationChunk(
        [a.message EXCEPT
            !.content = @ \o b.message.content,
            !.tool_call_chunks = MergeToolCallChunks(@, b.message.tool_call_chunks),
            !.usage_metadata = MergedUsage(@, b.message.usage_metadata)],
        a.text \o b.text,
        b.completion)

----------------------------------------------------------------------------
(* ChatMistralAI._streamResponseChunks and the streaming branch of _generate *)

\* the events a stream delivers: data.choices[0] may be missing, the choice
\* may have no delta, its index may be absent
StreamDelta(content, toolCalls) == [role |-> Undefined, content |-> content, toolCalls |-> toolCalls]
NoDelta == StreamDelta(Undefined, AbsentList)
StreamEvent(hasChoice, hasDelta, index, delta) ==
    [hasChoice |-> hasChoice, hasDelta |-> hasDelta, index |-> index, delta |-> delta,
     usage |-> NoUsage]
\* an event whose data.usage is set
UsageEvent(index, delta, usage) ==
    [StreamEvent(TRUE, TRUE, index, delta) EXCEPT !.usage = usage]
StreamEvents ==
    { StreamEvent(FALSE, FALSE, AbsentIndex, NoDelta),
      StreamEvent(TRUE, FALSE, PresentIndex(0), NoDelta),
      StreamEvent(TRUE, TRUE, PresentIndex(0), StreamDelta("", AbsentList)),
      StreamEvent(TRUE, TRUE, PresentIndex(0), StreamDelta("", PresentList(<<>>))),
      StreamEvent(TRUE, TRUE, AbsentIndex, StreamDelta("a", AbsentList)) }
    \cup { StreamEvent(TRUE, TRUE, PresentIndex(i), StreamDelta(c, AbsentList)) :
             i \in Indices, c \in {"a", "b"} }
    \cup { UsageEvent(PresentIndex(0), StreamDelta("a", AbsentList), usage) :
             usage \in {Usage(3, 10), Usage(2, 5)} }

\* the ids uuidv4 is asked for while an event is decoded
DrawsFor(event) ==
    IF event.delta.toolCalls.has /\ \E i \in DOMAIN event.delta.toolCalls.list :
                                        event.delta.toolCalls.list[i].id = Undefined
    THEN UuidDraws
    ELSE {[i \in 1..MaxCalls |-> "uuid1"]}

EmptyFinalChunks == [i \in Indices |-> NoGenerationChunk]
NoResult == [has |-> FALSE, generations |-> <<>>, estimatedTokenUsage |-> EmptyTokenUsage]

\* one call of _generate on the streaming branch:
\*   pc          await: the generator waits for the next event; yielded: a
\*               chunk is handed to the for-await loop of _generate; done:
\*               _generate returned; failed: _generate threw
\*   received    events taken from the stream
\*   polls       reads of options.signal.aborted
\*   events      the events taken from the stream, in arrival order
\*   arrived     the yielded chunks so far: [index, text] of their events
\*   pending     the chunk yielded last
\*   finalChunks the local finalChunks of _generate
\*   tokenUsage  the local tokenUsage of _generate
\*   streamUsage        this.streamUsage of the model instance
\*   optionStreamUsage  options.streamUsage of the call
\*   runManager         whether the caller passed a run manager
\*   callbacks          the handleLLMNewToken invocations so far: [token, completion]
AbsentFlag == [has |-> FALSE, val |-> FALSE]
PresentFlag(b) == [has |-> TRUE, val |-> b]
\* this.streamUsage = fields?.streamUsage ?? this.streamUsage, true by default
constructorStreamUsage(field) == IF field.has THEN field.val ELSE TRUE

NewCall ==
    [pc |-> "await", streamUsage |-> constructorStreamUsage(AbsentFlag),
     optionStreamUsage |-> AbsentFlag, runManager |-> TRUE, callbacks |-> <<>>,
     received |-> 0, polls |-> 0,
     events |-> <<>>, arrived |-> <<>>, tokenUsage |-> EmptyTokenUsage,
     pending |-> NoGenerationChunk, finalChunks |-> EmptyFinalChunks,
     result |-> NoResult, error |-> ""]

\* this.streamUsage || options.streamUsage
shouldStreamUsage(c) ==
    c.streamUsage \/ (c.optionStreamUsage.has /\ c.optionStreamUsage.val)

Decoded(c, event, uuids) ==
    convertDeltaToMessageChunk(event.delta,
        IF shouldStreamUsage(c) THEN event.usage ELSE NoUsage, uuids)

\* a loop body that leaves the loop when the signal is set, without throwing
streamResponseChunksBreakOnAbort(c, event, signalAborted, uuids) ==
    LET taken == [c EXCEPT !.received = @ + 1, !.polls = @ + 1,
                           !.events = Append(@, event)]
        message == Decoded(c, event, uuids)
    IN  IF signalAborted THEN taken
        ELSE IF ~event.hasChoice \/ ~event.hasDelta THEN taken
        ELSE IF ~message.some THEN taken
        ELSE [taken EXCEPT
                !.pc = "yielded",
                !.pending = ChatGenerationChunk(message,
                                OrElse(event.delta.content, ""),
                                IF event.index.has THEN event.index.val ELSE 0),
                !.arrived = Append(@, [index |-> event.index,
                                       text |-> OrElse(event.delta.content, "")])]

\* a loop body that reads the signal only after it has yielded the chunk
streamResponseChunksPollAfterYield(c, event, signalAborted, uuids) ==
    LET taken == [c EXCEPT !.received = @ + 1, !.polls = @ + 1,
                           !.events = Append(@, event)]
        message == Decoded(c, event, uuids)
    IN  IF ~event.hasChoice \/ ~event.hasDelta \/ ~message.some
        THEN IF signalAborted
             THEN [taken EXCEPT !.pc = "failed", !.error = "AbortError",
                                !.finalChunks = EmptyFinalChunks]
             ELSE taken
        ELSE [taken EXCEPT
                !.pc = IF signalAborted THEN "failed" ELSE "yielded",
                !.error = IF signalAborted THEN "AbortError" ELSE "",
                !.finalChunks = IF signalAborted THEN EmptyFinalChunks ELSE @,
                !.pending = ChatGenerationChunk(message,
                                OrElse(event.delta.content, ""),
                                IF event.index.has THEN event.index.val ELSE 0),
                !.arrived = Append(@, [index |-> event.index,
                                       text |-> OrElse(event.delta.content, "")])]

\* one pass of `for await (const { data } of streamIterable)`, up to its
\* throw, continue or yield; the throw ends _generate, whose finalChunks go
\* out of scope
streamResponseChunks(c, event, signalAborted, uuids) ==
    LET taken == [c EXCEPT !.received = @ + 1, !.polls = @ + 1,
                           !.events = Append(@, event)]
        message == Decoded(c, event, uuids)
    IN  IF signalAborted
        THEN [taken EXCEPT !.pc = "failed", !.error = "AbortError",
                           !.finalChunks = EmptyFinalChunks]
        ELSE IF ~event.hasChoice \/ ~event.hasDelta THEN taken
        ELSE IF ~message.some THEN taken
        ELSE [taken EXCEPT
                !.pc = "yielded",
                !.pending = ChatGenerationChunk(message,
                                OrElse(event.delta.content, ""),
                                IF event.index.has THEN event.index.val ELSE 0),
                !.arrived = Append(@, [index |-> event.index,
                                       text |-> OrElse(event.delta.content, "")])]

\* a generator that is resumed without telling the run manager
streamResponseChunksResumeSilent(c) == c

\* the generator is resumed after its yield:
\* void runManager?.handleLLMNewToken(generationChunk.text ?? "", newTokenIndices, ...)
streamResponseChunksResume(c) ==
    IF c.runManager
    THEN [c EXCEPT !.callbacks = Append(@, [token |-> c.pending.text,
                                            completion |-> c.pending.completion])]
    ELSE c

\* a loop body that concatenates the accumulated chunk onto the new one
generateConsumeReversed(c) ==
    LET chunk == c.pending
        index == chunk.completion
    IN  [c EXCEPT
            !.pc = "await",
            !.finalChunks[index] = IF ~@.some THEN chunk ELSE ChunkConcat(chunk, @)]

\* the body of `for await (const chunk of stream)` in _generate
generateConsume(c) ==
    LET chunk == c.pending
        index == chunk.completion
    IN  [c EXCEPT
            !.pc = "await",
            !.finalChunks[index] = IF ~@.some THEN chunk ELSE ChunkConcat(@, chunk)]

\* Object.entries lists integer keys in ascending order
RECURSIVE ObjectEntries(_, _)
ObjectEntries(finalChunks, from) ==
    IF from > MaxIndex THEN <<>>
    ELSE (IF finalChunks[from].some THEN <<[key |-> from, value |-> finalChunks[from]]>> ELSE <<>>)
            \o ObjectEntries(finalChunks, from + 1)

\* entries.sort((a, b) => parseInt(aKey) - parseInt(bKey))
RECURSIVE InsertEntry(_, _)
InsertEntry(sorted, entry) ==
    IF sorted = <<>> THEN <<entry>>
    ELSE IF entry.key - Head(sorted).key < 0 THEN <<entry>> \o sorted
    ELSE <<Head(sorted)>> \o InsertEntry(Tail(sorted), entry)
RECURSIVE SortEntries(_)
SortEntries(entries) ==
    IF entries = <<>> THEN <<>>
    ELSE InsertEntry(SortEntries(SubSeq(entries, 1, Len(entries) - 1)), entries[Len(entries)])

\* the stream is exhausted: _generate returns the sorted generations
generateFinish(c) ==
    LET entries == SortEntries(ObjectEntries(c.finalChunks, 0))
    IN  [c EXCEPT
            !.pc = "done",
            !.result = [has |-> TRUE,
                        generations |-> [k \in DOMAIN entries |-> entries[k].value],
                        estimatedTokenUsage |-> c.tokenUsage]]

----------------------------------------------------------------------------
(* Values left alone by a specification that does not use them *)

Idle == [op |-> "idle"]

IdleContent == cRole = "human" /\ cContent = StringContent("") /\ cOut = Idle
IdleBuild == bMessages = <<>> /\ bOut = Idle
IdleDelta == dDelta = Idle /\ dUsage = Idle /\ dOut = Idle
IdleDecode == rChoice = Idle /\ rUsage = Idle /\ rOut = Idle
IdleStream == call = Idle /\ aborted = FALSE
IdleRequest == req = Idle
IdleGenerate == gResponse = Idle /\ gOut = Idle
IdleConcurrent == calls = Idle /\ arena = Idle
IdleTransport == tError = Idle /\ tOut = Idle
IdleStruct == sInput = Idle /\ sOut = Idle
IdleTools == vTools = Idle /\ vOut = Idle
IdleHooks == hk = Idle
IdleLate == IdleStruct /\ IdleTools /\ IdleHooks
IdleExt == IdleRequest /\ IdleGenerate /\ IdleConcurrent /\ IdleTransport /\ IdleLate

----------------------------------------------------------------------------
(* SpecContent: getRole and getContent applied to one role and content *)

InitContent ==
    /\ cRole \in MessageTypes
    /\ cContent \in Contents
    /\ cOut = [op |-> "none", res |-> NotRun]
    /\ IdleBuild /\ IdleDelta /\ IdleDecode /\ IdleStream /\ IdleExt

GetRole ==
    /\ cOut.op = "none"
    /\ cOut' = [op |-> "getRole", res |-> getRole(cRole)]
    /\ UNCHANGED <<cRole, cContent, buildVars, deltaVars, decodeVars, streamVars, extVars>>

GetContent ==
    /\ cOut.op = "none"
    /\ cOut' = [op |-> "getContent", res |-> getContent(cContent, cRole)]
    /\ UNCHANGED <<cRole, cContent, buildVars, deltaVars, decodeVars, streamVars, extVars>>

GetContentEarlier ==
    /\ cOut.op = "none"
    /\ cOut' = [op |-> "getContentEarlier", res |-> getContentEarlier(cContent, cRole)]
    /\ UNCHANGED <<cRole, cContent, buildVars, deltaVars, decodeVars, streamVars, extVars>>

NextContent == GetRole \/ GetContent \/ GetContentEarlier

SpecContent == InitContent /\ [][NextContent]_vars

ContentTranslated == cOut.op \in {"getContent", "getContentEarlier"}
IsImagePart(p) == p.type = "image_url"
HasImagePart == cContent.kind = "array" /\ \E i \in DOMAIN cContent.parts : IsImagePart(cContent.parts[i])

\* C7: a content sequence holding an image-reference part is rejected when the
\* message's role maps to system; under a user message every image-reference
\* part is translated to an image chunk carrying its reference, and the
\* sequence is accepted whenever its other parts are text or image parts.
C7_ContentInvariant ==
    (ContentTranslated /\ HasImagePart) =>
        /\ cRole = "system" => ~cOut.res.ok
        /\ (cRole = "human" /\ \A i \in DOMAIN cContent.parts :
                                  cContent.parts[i].type \in {"text", "image_url"}) =>
                /\ cOut.res.ok
                /\ Len(cOut.res.value.parts) = Len(cContent.parts)
                /\ \A i \in DOMAIN cContent.parts :
                      IsImagePart(cContent.parts[i]) =>
                          cOut.res.value.parts[i] = ImageChunk(cContent.parts[i].image_url)

C7_Witness ==
    /\ cOut.op = "getContent" /\ HasImagePart /\ cRole = "human"
    /\ cOut.res.ok /\ Len(cContent.parts) = 2
    /\ IsImagePart(cContent.parts[2]) /\ cContent.parts[1].type = "text"

\* C8: for the roles that map to assistant or tool (ai, function, tool) every
\* content given as a sequence of parts is rejected, the empty sequence
\* included, and plain-string content is accepted.
C8_SequenceRejectedForAssistantAndTool ==
    (ContentTranslated /\ cRole \in {"ai", "function", "tool"}) =>
        /\ cContent.kind = "array" => ~cOut.res.ok
        /\ cContent.kind = "string" => cOut.res.ok

\* C9: getRole maps human to user, ai to assistant, system to system, tool to
\* tool and function to assistant; for any other tag it throws an error whose
\* message names the tag, and returns no role.
C9_RoleMappingTotal ==
    cOut.op = "getRole" =>
        CASE cRole = "human" -> cOut.res = Return("user")
          [] cRole = "ai" -> cOut.res = Return("assistant")
          [] cRole = "system" -> cOut.res = Return("system")
          [] cRole = "tool" -> cOut.res = Return("tool")
          [] cRole = "function" -> cOut.res = Return("assistant")
          [] OTHER -> /\ ~cOut.res.ok
                      /\ cOut.res.value = Null
                      /\ cOut.res.error = "Unknown message type: " \o cRole

C9_Witness == cOut.op = "getRole" /\ cRole = "remove" /\ ~cOut.res.ok

----------------------------------------------------------------------------
(* SpecBuild: convertMessagesToMistralMessages applied to a message list *)

BuildTypes == KnownTypes \cup {"generic"}
BuildContents ==
    { StringContent("hi"),
      ArrayContent(<<[type |-> "text", text |-> "t", image_url |-> Undefined]>>),
      ArrayContent(<<[type |-> "image_url", text |-> Undefined, image_url |-> "u"]>>) }
WeatherCall == [id |-> "call_1", name |-> "get_weather", args |-> "args:{location}"]

BuildMessages ==
    [type : BuildTypes, content : BuildContents, tool_call_id : {Undefined, "call_1"},
     name : {Undefined}, tool_calls : {<<>>}, kwargs_tool_calls : {<<>>}]
    \cup
    [type : {"ai"}, content : BuildContents, tool_call_id : {Undefined},
     name : {Undefined}, tool_calls : {<<WeatherCall>>}, kwargs_tool_calls : {<<>>}]

InitBuild ==
    /\ bMessages \in SeqsUpTo(BuildMessages, MaxMsgs)
    /\ bOut = [op |-> "none", res |-> NotRun]
    /\ IdleContent /\ IdleDelta /\ IdleDecode /\ IdleStream /\ IdleExt

Build ==
    /\ bOut.op = "none"
    /\ bOut' = [op |-> "build", res |-> convertMessagesToMistralMessages(bMessages)]
    /\ UNCHANGED <<bMessages, contentVars, deltaVars, decodeVars, streamVars, extVars>>

NextBuild == Build

SpecBuild == InitBuild /\ [][NextBuild]_vars

\* C10: when the builder succeeds on n messages its output has n provider
\* messages, and output i carries the mapped role and the translated content
\* of input i: nothing is reordered, dropped, duplicated or merged.
C10_BuilderOneToOne ==
    (bOut.op = "build" /\ bOut.res.ok) =>
        /\ Len(bOut.res.value) = Len(bMessages)
        /\ \A i \in DOMAIN bMessages :
              /\ bOut.res.value[i].role = getRole(bMessages[i].type).value
              /\ bOut.res.value[i].content =
                    getContent(bMessages[i].content, bMessages[i].type).value

C10_Witness ==
    /\ bOut.op = "build" /\ bOut.res.ok /\ Len(bMessages) = 2
    /\ bMessages[1].type = "system" /\ bMessages[2].type = "human"
    /\ bMessages[2].content.kind = "array"

----------------------------------------------------------------------------
(* SpecDelta: _convertDeltaToMessageChunk applied to one delta *)

InitDelta ==
    /\ dDelta \in Deltas
    /\ dUsage \in Usages
    /\ dOut = [op |-> "none", res |-> NoChunk]
    /\ IdleContent /\ IdleBuild /\ IdleDecode /\ IdleStream /\ IdleExt

ConvertDelta ==
    /\ dOut.op = "none"
    /\ \E uuids \in UuidDraws :
          dOut' = [op |-> "convert", res |-> convertDeltaToMessageChunk(dDelta, dUsage, uuids)]
    /\ UNCHANGED <<dDelta, dUsage, contentVars, buildVars, decodeVars, streamVars, extVars>>

NextDelta == ConvertDelta

SpecDelta == InitDelta /\ [][NextDelta]_vars

\* content empty or absent and tool-call list empty or absent
EmptyDelta ==
    /\ ~Truthy(dDelta.content)
    /\ ~dDelta.toolCalls.has \/ Len(dDelta.toolCalls.list) = 0

\* C4: a delta with empty or absent content and an empty or absent tool-call
\* list, with no usage attached, produces no chunk, whatever its role.
C4_EmptyDeltaSkipped ==
    (dOut.op = "convert" /\ EmptyDelta /\ ~dUsage.has) => ~dOut.res.some

\* C5: a delta with empty or absent content and an empty or absent tool-call
\* list, with usage attached, produces an assistant chunk with empty content,
\* no tool-call fragment and the usage counts, whatever its role.
C5_EmptyDeltaWithUsage ==
    (dOut.op = "convert" /\ EmptyDelta /\ dUsage.has) =>
        /\ dOut.res.some
        /\ dOut.res.kind = "ai"
        /\ dOut.res.content = ""
        /\ dOut.res.tool_call_chunks = <<>>
        /\ dOut.res.usage_metadata =
              [has |-> TRUE, input_tokens |-> dUsage.promptTokens,
               output_tokens |-> dUsage.completionTokens,
               total_tokens |-> dUsage.totalTokens]

----------------------------------------------------------------------------
(* SpecDecode: mistralAIResponseToChatMessage applied to one choice *)

InitDecode ==
    /\ rChoice \in Choices
    /\ rUsage \in Usages
    /\ rOut = [op |-> "none", res |-> NotRun]
    /\ IdleContent /\ IdleBuild /\ IdleDelta /\ IdleStream /\ IdleExt

DecodeChoice ==
    /\ rOut.op = "none"
    /\ \E uuids \in UuidDraws :
          rOut' = [op |-> "decode", res |-> mistralAIResponseToChatMessage(rChoice, rUsage, uuids)]
    /\ UNCHANGED <<rChoice, rUsage, contentVars, buildVars, deltaVars, streamVars, extVars>>

NextDecode == DecodeChoice

SpecDecode == InitDecode /\ [][NextDecode]_vars

RawCalls == IF rChoice.message.toolCalls.has THEN rChoice.message.toolCalls.list ELSE <<>>
\* the raw call has a function whose arguments are a JSON text
Parses(raw) == raw.hasFunction /\ raw.arguments \in {"{}", "{\"location\":\"Paris\"}"}
ParsedRaw == SelectSeq(RawCalls, Parses)
UnparsedRaw == SelectSeq(RawCalls, LAMBDA raw : ~Parses(raw))

\* C6: decoding an assistant choice with k raw tool calls succeeds whatever
\* their arguments; the raw calls that parse are the tool_calls, in raw order,
\* the others are the invalid_tool_calls, in raw order with name and raw
\* arguments kept, so the two lists have k entries together.
C6_InvalidToolCallRecovery ==
    (rOut.op = "decode" /\ rChoice.hasMessage /\ rChoice.message.role = "assistant") =>
        /\ rOut.res.ok
        /\ Len(rOut.res.value.tool_calls) + Len(rOut.res.value.invalid_tool_calls) = Len(RawCalls)
        /\ Len(rOut.res.value.tool_calls) = Len(ParsedRaw)
        /\ \A i \in DOMAIN ParsedRaw :
              /\ rOut.res.value.tool_calls[i].name = ParsedRaw[i].name
              /\ ParsedRaw[i].id # Undefined => rOut.res.value.tool_calls[i].id = ParsedRaw[i].id
              /\ ParsedRaw[i].id = Undefined => rOut.res.value.tool_calls[i].id \in FreshIds
        /\ Len(rOut.res.value.invalid_tool_calls) = Len(UnparsedRaw)
        /\ \A i \in DOMAIN UnparsedRaw :
              /\ rOut.res.value.invalid_tool_calls[i].name = UnparsedRaw[i].name
              /\ rOut.res.value.invalid_tool_calls[i].args = UnparsedRaw[i].arguments
              /\ rOut.res.value.invalid_tool_calls[i].id = UnparsedRaw[i].id

C6_Witness ==
    /\ rOut.op = "decode" /\ rChoice.hasMessage /\ rChoice.message.role = "assistant"
    /\ Len(RawCalls) = 2 /\ ~Parses(RawCalls[1]) /\ Parses(RawCalls[2])
    /\ rOut.res.ok
    /\ Len(rOut.res.value.tool_calls) = 1 /\ Len(rOut.res.value.invalid_tool_calls) = 1

----------------------------------------------------------------------------
(* Spec: one streaming call of _generate and its cancellation signal *)

Init ==
    /\ call = NewCall
    /\ aborted = FALSE
    /\ IdleContent /\ IdleBuild /\ IdleDelta /\ IdleDecode /\ IdleExt

StreamOpen == call.pc \in {"await", "yielded"}

\* the external cancellation signal fires
Abort ==
    /\ StreamOpen
    /\ ~aborted
    /\ aborted' = TRUE
    /\ UNCHANGED <<call, contentVars, buildVars, deltaVars, decodeVars, extVars>>

\* the stream delivers its next event
NextEvent ==
    /\ call.pc = "await"
    /\ call.received < MaxEvents
    /\ \E event \in StreamEvents : \E uuids \in DrawsFor(event) :
          call' = streamResponseChunks(call, event, aborted, uuids)
    /\ UNCHANGED <<aborted, contentVars, buildVars, deltaVars, decodeVars, extVars>>

\* _generate merges the yielded chunk and asks for the next one
Consume ==
    /\ call.pc = "yielded"
    /\ call' = streamResponseChunksResume(generateConsume(call))
    /\ UNCHANGED <<aborted, contentVars, buildVars, deltaVars, decodeVars, extVars>>

\* the stream ends
EndStream ==
    /\ call.pc = "await"
    /\ call' = generateFinish(call)
    /\ UNCHANGED <<aborted, contentVars, buildVars, deltaVars, decodeVars, extVars>>

Next == Abort \/ NextEvent \/ Consume \/ EndStream

Spec == Init /\ [][Next]_vars

IndexOf(index) == IF index.has THEN index.val ELSE 0
SeenIndices == {IndexOf(call.arrived[k].index) : k \in DOMAIN call.arrived}
RECURSIVE TextOf(_)
TextOf(arrivals) == IF arrivals = <<>> THEN "" ELSE Head(arrivals).text \o TextOf(Tail(arrivals))
ArrivedAt(i) == SelectSeq(call.arrived, LAMBDA a : IndexOf(a.index) = i)

\* C1: the finalized list has one entry per distinct index seen (an absent
\* index counts as 0), in strictly ascending index order, and the text of the
\* entry for index i is the concatenation, in arrival order, of the chunks
\* that arrived with index i.
C1_AggregationOrder ==
    call.pc = "done" =>
        LET generations == call.result.generations
        IN  /\ call.result.has
            /\ Len(generations) = Cardinality(SeenIndices)
            /\ \A k \in DOMAIN generations :
                  /\ generations[k].completion \in SeenIndices
                  /\ k > 1 => generations[k - 1].completion < generations[k].completion
                  /\ generations[k].text = TextOf(ArrivedAt(generations[k].completion))
                  /\ generations[k].message.content = generations[k].text

C1_Witness ==
    /\ call.pc = "done"
    /\ Len(call.arrived) = 3
    /\ IndexOf(call.arrived[1].index) = 1 /\ call.arrived[1].text = "b"
    /\ ~call.arrived[2].index.has /\ call.arrived[2].text = "a"
    /\ call.arrived[3].index = PresentIndex(0) /\ call.arrived[3].text = "b"
    /\ Len(call.result.generations) = 2
    /\ call.result.generations[1].text = "ab"

EventArrives == call'.received = call.received + 1

\* C2 as stated: once the signal has fired while the stream was open, after
\* some chunks were consumed, the call returns no result.
C2_NoResultAfterAbort ==
    (aborted /\ Len(call.arrived) > 0) => ~call.result.has

\* C2 amended: when the signal is set at the arrival of a further event, the
\* call fails with the abort error, its accumulated chunks are discarded and
\* it never returns a result.
C2_AbortAtNextEvent ==
    [][ /\ (aborted /\ EventArrives) =>
              /\ call'.pc = "failed" /\ call'.error = "AbortError"
              /\ call'.finalChunks = EmptyFinalChunks
              /\ ~call'.result.has
        /\ call.pc = "failed" => (call'.pc = "failed" /\ ~call'.result.has)
      ]_vars

C2_Witness ==
    /\ call.pc = "failed" /\ call.error = "AbortError"
    /\ call.received = 3 /\ Len(call.arrived) = 2
    /\ ~call.result.has /\ call.finalChunks = EmptyFinalChunks

\* C3: the signal is read once per incoming event, before the event is
\* decoded: an event that arrives with the signal set fails the stream with
\* the abort error and yields no chunk, an event that arrives with the signal
\* clear does not fail it, and after the failure no event is taken and no
\* chunk is yielded.
C3_PolledOncePerEvent ==
    [][ /\ call'.polls - call.polls = call'.received - call.received
        /\ call'.received - call.received \in {0, 1}
        /\ (EventArrives /\ aborted) =>
              /\ call'.pc = "failed" /\ call'.error = "AbortError"
              /\ call'.arrived = call.arrived /\ call'.pending = call.pending
        /\ (EventArrives /\ ~aborted) => call'.pc \in {"await", "yielded"}
        /\ call.pc = "failed" => call' = call
      ]_vars

C3_Witness ==
    /\ call.pc = "failed" /\ aborted
    /\ call.polls = 2 /\ call.received = 2 /\ Len(call.arrived) = 1

----------------------------------------------------------------------------
(* SpecRequest: the start of a call, up to the call of the transport *)

\* the two public entries: _generate, and _streamResponseChunks called directly
Entries == {"_generate", "_streamResponseChunks"}

NewRequest(entry, streaming, messages) ==
    [pc |-> entry, entry |-> entry, streaming |-> streaming, messages |-> messages,
     input |-> NotRun, sent |-> <<>>, error |-> ""]

\* what completionWithRetry hands to the client: the request and its mode
TransportCall(input, streaming) == [messages |-> input, streaming |-> streaming]

\* a _generate that goes on with the messages converted before the bad one
generateBeginKeepPrefix(r) ==
    LET out == [i \in DOMAIN r.messages |-> convertMessage(r.messages[i])]
        good == {n \in 0..Len(r.messages) : \A i \in 1..n : out[i].ok}
        n == CHOOSE k \in good : \A j \in good : j <= k
    IN  [r EXCEPT !.pc = IF r.streaming THEN "_streamResponseChunks" ELSE "complete",
                  !.input = Return([i \in 1..n |-> out[i].value])]

\* _generate up to the choice of the path: the message list is converted
\* first, and a conversion that throws ends the call
generateBegin(r) ==
    LET mistralMessages == convertMessagesToMistralMessages(r.messages)
    IN  IF ~mistralMessages.ok
        THEN [r EXCEPT !.pc = "thrown", !.error = mistralMessages.error]
        ELSE [r EXCEPT !.pc = IF r.streaming THEN "_streamResponseChunks" ELSE "complete",
                       !.input = mistralMessages]

\* the non-streaming path: completionWithRetry(input, false)
generateComplete(r) ==
    [r EXCEPT !.pc = "sent", !.sent = Append(@, TransportCall(r.input.value, FALSE))]

\* _streamResponseChunks up to its call of the transport: it converts the
\* message list itself, then calls completionWithRetry(input, true)
streamResponseChunksBegin(r) ==
    LET mistralMessages == convertMessagesToMistralMessages(r.messages)
    IN  IF ~mistralMessages.ok
        THEN [r EXCEPT !.pc = "thrown", !.input = NotRun, !.error = mistralMessages.error]
        ELSE [r EXCEPT !.pc = "sent", !.input = mistralMessages,
                       !.sent = Append(@, TransportCall(mistralMessages.value, TRUE))]

\* messages whose role is unmapped or whose content holds a disallowed part
RequestMessages ==
    [type : {"human", "system", "ai", "generic"},
     content : BuildContents \cup
               {ArrayContent(<<[type |-> "text", text |-> "t", image_url |-> Undefined],
                               [type |-> "image_url", text |-> Undefined, image_url |-> "u"]>>)},
     tool_call_id : {Undefined}, name : {Undefined},
     tool_calls : {<<>>}, kwargs_tool_calls : {<<>>}]

InitRequest ==
    /\ req \in {NewRequest(e, s, m) : e \in Entries, s \in BOOLEAN,
                                      m \in SeqsUpTo(RequestMessages, MaxMsgs)}
    /\ req.entry = "_streamResponseChunks" => req.streaming
    /\ IdleContent /\ IdleBuild /\ IdleDelta /\ IdleDecode /\ IdleStream
    /\ IdleGenerate /\ IdleConcurrent /\ IdleTransport /\ IdleLate

RequestUnchanged ==
    UNCHANGED <<contentVars, buildVars, deltaVars, decodeVars, streamVars,
                generateVars, concurrentVars, transportVars, lateVars>>

GenerateBegin ==
    /\ req.pc = "_generate"
    /\ req' = generateBegin(req)
    /\ RequestUnchanged

GenerateComplete ==
    /\ req.pc = "complete"
    /\ req' = generateComplete(req)
    /\ RequestUnchanged

StreamResponseChunksBegin ==
    /\ req.pc = "_streamResponseChunks"
    /\ req' = streamResponseChunksBegin(req)
    /\ RequestUnchanged

NextRequest == GenerateBegin \/ GenerateComplete \/ StreamResponseChunksBegin

SpecRequest == InitRequest /\ [][NextRequest]_vars

\* the role of the message is unmapped
UnmappedRole(message) == ~getRole(message.type).ok
\* the parts a role may carry: text and image parts under user, text parts
\* under system, none under the other roles
AllowedPartTypes(mistralRole) ==
    CASE mistralRole = "user" -> {"text", "image_url"}
      [] mistralRole = "system" -> {"text"}
      [] OTHER -> {}
\* the content of the message holds a part that is disallowed for its role
DisallowedPart(message) ==
    /\ getRole(message.type).ok
    /\ message.content.kind = "array"
    /\ \E i \in DOMAIN message.content.parts :
          message.content.parts[i].type \notin AllowedPartTypes(getRole(message.type).value)
Malformed(messages) ==
    \E i \in DOMAIN messages : UnmappedRole(messages[i]) \/ DisallowedPart(messages[i])

\* C11: when a message of the request has an unmapped role or a content part
\* disallowed for its role, the call ends with an error once it has started,
\* no provider message list is held (no prefix, no partial content list), and
\* the transport is never called, from _generate with or without streaming and
\* from _streamResponseChunks.
C11_MalformedInputIsFatal ==
    Malformed(req.messages) =>
        /\ req.sent = <<>>
        /\ req.input = NotRun
        /\ req.pc \in {req.entry, "thrown"}
        /\ req.pc = "thrown" => req.error # ""

C11_Witness ==
    /\ req.pc = "thrown" /\ req.entry = "_generate" /\ req.streaming
    /\ Len(req.messages) = 2
    /\ ~Malformed(<<req.messages[1]>>) /\ DisallowedPart(req.messages[2])

----------------------------------------------------------------------------
(* SpecMessage: convertMessagesToMistralMessages applied to one message that
   may carry a tool_call_id, structured tool calls and legacy tool calls *)

ShapeCalls ==
    {c \in ToolCalls : (c.args = "args:{location}") = (c.id = "call_1")}

ShapeMessages ==
    [type : {"human", "ai", "tool", "system"}, content : {StringContent("hi")},
     tool_call_id : {Undefined, "call_1"}, name : {Undefined, "get_weather"},
     tool_calls : SeqsUpTo(ShapeCalls, MaxCalls),
     kwargs_tool_calls : SeqsUpTo(LegacyToolCalls, MaxCalls)]

InitMessage ==
    /\ bMessages \in {<<message>> : message \in ShapeMessages}
    /\ bOut = [op |-> "none", res |-> NotRun]
    /\ IdleContent /\ IdleDelta /\ IdleDecode /\ IdleStream /\ IdleExt

SpecMessage == InitMessage /\ [][NextBuild]_vars

Built == bOut.op = "build" /\ bOut.res.ok /\ Len(bMessages) = 1
TheMessage == bMessages[1]
TheOutput == bOut.res.value[1]

\* C12: a message with a string tool_call_id yields role, content, name and
\* the coerced id as toolCallId, and no tool-call list, also when it is an
\* assistant message or carries tool calls; otherwise an ai message yields
\* role, content and toolCalls; every other message yields role and content
\* only, also when it carries legacy metadata tool calls.
C12_ShapeByKind ==
    Built =>
        /\ TheOutput.role = getRole(TheMessage.type).value
        /\ TheOutput.content = TheMessage.content
        /\ IF TheMessage.tool_call_id # Undefined
           THEN /\ TheOutput.shape = "toolResult"
                /\ TheOutput.name = TheMessage.name
                /\ TheOutput.toolCallId =
                       convertToolCallIdToMistralCompatible(TheMessage.tool_call_id)
                /\ ~TheOutput.toolCalls.has
           ELSE IF TheMessage.type = "ai"
           THEN /\ TheOutput.shape = "assistant"
                /\ TheOutput.name = Undefined /\ TheOutput.toolCallId = Undefined
                /\ TheOutput.toolCalls.has =
                       (Len(TheMessage.tool_calls) > 0 \/ Len(TheMessage.kwargs_tool_calls) > 0)
           ELSE /\ TheOutput.shape = "plain"
                /\ TheOutput.name = Undefined /\ TheOutput.toolCallId = Undefined
                /\ ~TheOutput.toolCalls.has

C12_Witness ==
    /\ Built /\ TheMessage.type = "ai" /\ TheMessage.tool_call_id = "call_1"
    /\ Len(TheMessage.tool_calls) = 2 /\ TheOutput.shape = "toolResult"
    /\ TheOutput.toolCallId = "0Hc4ll1x7"

OrEmpty(id) == IF id = Undefined THEN "" ELSE id

\* C13: for an assistant message the outbound tool-call list is built from
\* the structured tool calls when that list is non-empty, from the legacy
\* metadata tool calls when the structured list is empty and the legacy list
\* is not, and is absent when both are empty; it has the length and the order
\* of its source list and every id is the coerced id of its source call.
C13_ToolCallSource ==
    (Built /\ TheOutput.shape = "assistant") =>
        LET structured == TheMessage.tool_calls
            legacy == TheMessage.kwargs_tool_calls
            out == TheOutput.toolCalls
        IN  IF Len(structured) > 0
            THEN /\ out.has /\ Len(out.list) = Len(structured)
                 /\ \A i \in DOMAIN structured :
                       /\ out.list[i].id =
                              convertToolCallIdToMistralCompatible(OrEmpty(structured[i].id))
                       /\ out.list[i].name = structured[i].name
                       /\ out.list[i].arguments = JsonStringify(structured[i].args)
            ELSE IF Len(legacy) > 0
            THEN /\ out.has /\ Len(out.list) = Len(legacy)
                 /\ \A i \in DOMAIN legacy :
                       /\ out.list[i].id =
                              convertToolCallIdToMistralCompatible(legacy[i].id)
                       /\ out.list[i].name = legacy[i].name
                       /\ out.list[i].arguments = legacy[i].arguments
            ELSE ~out.has

C13_Witness ==
    /\ Built /\ TheOutput.shape = "assistant"
    /\ Len(TheMessage.tool_calls) = 2 /\ Len(TheMessage.kwargs_tool_calls) = 1
    /\ TheMessage.tool_calls[1].id = Undefined /\ TheMessage.tool_calls[2].id = "call_1"
    /\ TheOutput.toolCalls.list[1].id = "000empty0"
    /\ TheOutput.toolCalls.list[2].id = "0Hc4ll1x7"

----------------------------------------------------------------------------
(* The chunks _streamResponseChunks yields, event by event *)

EventTaken == call'.received = call.received + 1
LastEvent == call'.events[Len(call'.events)]
\* content empty or absent, tool-call list empty or absent, no usage attached
EmptyStreamDelta(event) ==
    /\ ~Truthy(event.delta.content)
    /\ ~event.delta.toolCalls.has \/ Len(event.delta.toolCalls.list) = 0
    /\ ~event.usage.has
ChunkYielded ==
    /\ call'.pc = "yielded"
    /\ Len(call'.arrived) = Len(call.arrived) + 1
    /\ call'.pending.some
    /\ call'.pending.completion = IndexOf(LastEvent.index)
NothingYielded ==
    /\ call'.pc = "await"
    /\ call'.arrived = call.arrived
    /\ call'.pending = call.pending

\* C14: each event taken from the stream yields exactly one chunk, tagged
\* with the index of its first choice (0 when the index is absent), when that
\* choice carries a delta that is not empty, and yields nothing when the
\* event has no choice, the choice has no delta or the delta is empty.
C14_OneChunkPerEvent ==
    [][(EventTaken /\ ~aborted) =>
          IF LastEvent.hasChoice /\ LastEvent.hasDelta /\ ~EmptyStreamDelta(LastEvent)
          THEN ChunkYielded
          ELSE NothingYielded]_vars

----------------------------------------------------------------------------
(* The chunk _convertDeltaToMessageChunk builds for a delta that is not empty *)

Converted == dOut.op = "convert"
DeltaContent == IF dDelta.content = Undefined THEN "" ELSE dDelta.content
Fragments == IF dDelta.toolCalls.has THEN dDelta.toolCalls.list ELSE <<>>
\* the id of the first fragment: the provider's, or a synthesized one
FirstFragmentIds ==
    IF Fragments[1].id = Undefined THEN FreshIds ELSE {Fragments[1].id}

\* C15: for a delta that is not empty the kind of the chunk follows from the
\* role alone: absent or empty role and assistant give an assistant chunk,
\* user a user chunk with the content only, tool a tool-result chunk whose
\* reference id is the id of the first fragment or "" when there is none,
\* function a function chunk, any other role a generic chunk with that role.
C15_KindByRole ==
    (Converted /\ ~EmptyDelta) =>
        /\ dOut.res.some
        /\ dOut.res.content = DeltaContent
        /\ CASE dDelta.role \in {Undefined, "", "assistant"} ->
                    dOut.res.kind = "ai" /\ dOut.res.role = "assistant"
             [] dDelta.role = "user" ->
                    /\ dOut.res.kind = "human"
                    /\ dOut.res.tool_call_chunks = <<>>
                    /\ dOut.res.usage_metadata = NoUsageMetadata
                    /\ dOut.res.tool_call_id = Undefined
             [] dDelta.role = "tool" ->
                    /\ dOut.res.kind = "tool"
                    /\ IF Len(Fragments) > 0
                       THEN dOut.res.tool_call_id \in FirstFragmentIds
                       ELSE dOut.res.tool_call_id = ""
             [] dDelta.role = "function" -> dOut.res.kind = "function"
             [] OTHER -> dOut.res.kind = "chat" /\ dOut.res.role = dDelta.role

C15_Witness ==
    /\ Converted /\ ~EmptyDelta /\ dDelta.role = "tool"
    /\ dDelta.content = "a" /\ Len(Fragments) = 0
    /\ dOut.res.kind = "tool" /\ dOut.res.tool_call_id = ""

\* C16: for an assistant delta carrying n tool-call fragments the chunk has n
\* tool-call chunks in the same order, number i tagged with index i counted
\* from zero, with the provider's id when present and a synthesized id
\* otherwise, and with the provider's arguments when they are a string or
\* absent and their JSON serialization otherwise.
C16_FragmentsIndexed ==
    (Converted /\ dDelta.role \in {Undefined, "", "assistant"} /\ Len(Fragments) > 0) =>
        /\ dOut.res.kind = "ai"
        /\ Len(dOut.res.tool_call_chunks) = Len(Fragments)
        /\ \A i \in DOMAIN Fragments :
              LET fragment == Fragments[i]
                  chunk == dOut.res.tool_call_chunks[i]
              IN  /\ chunk.index = i - 1
                  /\ chunk.name = fragment.name
                  /\ IF fragment.id # Undefined
                     THEN chunk.id = fragment.id
                     ELSE chunk.id \in FreshIds
                  /\ IF fragment.arguments = Undefined \/ ~IsObjectArguments(fragment.arguments)
                     THEN chunk.args = fragment.arguments
                     ELSE chunk.args = JsonStringify(fragment.arguments)

C16_Witness ==
    /\ Converted /\ dDelta.role = "assistant" /\ Len(Fragments) = 2
    /\ Fragments[1].id = "id1" /\ Fragments[2].id = Undefined
    /\ Fragments[1].arguments = "{}" /\ Fragments[2].arguments = "args:{location}"
    /\ dOut.res.tool_call_chunks[2].index = 1
    /\ dOut.res.tool_call_chunks[2].id = "uuid2"
    /\ dOut.res.tool_call_chunks[2].args = "{\"location\":\"Paris\"}"

----------------------------------------------------------------------------
(* SpecConcurrent: two streaming calls of _generate on one model instance,
   their stream events interleaved *)

CallIds == {"first", "second"}

\* a store that holds one finalChunks for all invocations
finalChunksOfShared(k) == "first"

\* `const finalChunks = {}` is a local of the invocation: each call of
\* _generate has its own
finalChunksOf(k) == k

ConcurrentEvents ==
    { StreamEvent(FALSE, FALSE, AbsentIndex, NoDelta),
      StreamEvent(TRUE, TRUE, PresentIndex(0), StreamDelta("a", AbsentList)),
      StreamEvent(TRUE, TRUE, AbsentIndex, StreamDelta("b", AbsentList)),
      UsageEvent(PresentIndex(1), StreamDelta("b", AbsentList), Usage(3, 10)) }

\* the call k with the finalChunks its code reads and writes
Bound(k) == [calls[k] EXCEPT !.finalChunks = arena[finalChunksOf(k)]]
Stored(k, c) ==
    /\ calls' = [calls EXCEPT ![k] = [c EXCEPT !.finalChunks = EmptyFinalChunks]]
    /\ arena' = [arena EXCEPT ![finalChunksOf(k)] = c.finalChunks]

InitConcurrent ==
    /\ calls = [k \in CallIds |-> NewCall]
    /\ arena = [k \in CallIds |-> EmptyFinalChunks]
    /\ IdleContent /\ IdleBuild /\ IdleDelta /\ IdleDecode /\ IdleStream
    /\ IdleRequest /\ IdleGenerate /\ IdleTransport /\ IdleLate

ConcurrentUnchanged ==
    UNCHANGED <<contentVars, buildVars, deltaVars, decodeVars, streamVars,
                requestVars, generateVars, transportVars, lateVars>>

\* the stream of call k delivers its next event
CallNextEvent(k) ==
    /\ calls[k].pc = "await"
    /\ calls[k].received < MaxCallEvents
    /\ \E event \in ConcurrentEvents : \E uuids \in DrawsFor(event) :
          Stored(k, streamResponseChunks(Bound(k), event, FALSE, uuids))
    /\ ConcurrentUnchanged

\* call k merges the chunk its generator yielded
CallConsume(k) ==
    /\ calls[k].pc = "yielded"
    /\ Stored(k, streamResponseChunksResume(generateConsume(Bound(k))))
    /\ ConcurrentUnchanged

\* the stream of call k ends
CallEndStream(k) ==
    /\ calls[k].pc = "await"
    /\ Stored(k, generateFinish(Bound(k)))
    /\ ConcurrentUnchanged

NextConcurrent ==
    \E k \in CallIds : CallNextEvent(k) \/ CallConsume(k) \/ CallEndStream(k)

SpecConcurrent == InitConcurrent /\ [][NextConcurrent]_vars

\* the call that takes the given events with no other call running
RECURSIVE Alone(_, _)
Alone(c, events) ==
    IF events = <<>> THEN c
    ELSE LET uuids == CHOOSE u \in DrawsFor(Head(events)) : TRUE
             taken == streamResponseChunks(c, Head(events), FALSE, uuids)
         IN  Alone(IF taken.pc = "yielded"
                   THEN streamResponseChunksResume(generateConsume(taken)) ELSE taken,
                   Tail(events))

\* C17: at every point where a call waits for its next event or has returned,
\* its aggregation state is the one it builds from its own events with no
\* other call running, and the result of a finished call (generations with
\* their usage counts) is the result of that call run alone.
C17_CallsIndependent ==
    \A k \in CallIds :
        /\ calls[k].pc \in {"await", "done"} =>
              arena[finalChunksOf(k)] = Alone(NewCall, calls[k].events).finalChunks
        /\ calls[k].pc = "done" =>
              calls[k].result = generateFinish(Alone(NewCall, calls[k].events)).result

C17_Witness ==
    /\ calls["first"].pc = "done" /\ calls["second"].pc = "yielded"
    /\ Len(calls["first"].arrived) = 2 /\ Len(calls["second"].arrived) = 2
    /\ Len(calls["first"].result.generations) = 1
    /\ calls["first"].result.generations[1].text = "ab"
    /\ calls["second"].arrived[1].text = "b" /\ calls["second"].arrived[2].text = "a"
    /\ arena["second"][0].text = "b"

----------------------------------------------------------------------------
(* SpecGenerate: the non-streaming branch of _generate on one response *)

DeltaError == "Delta not supported in non-streaming mode."
NoMessageInChoiceError == "No message found in the choice."

\* a choice of a complete response: the keys "delta" and "message" may each
\* be there or not, and a "message" key may hold undefined
ResponsePart(hasDelta, hasMessageKey, choice, finishReason) ==
    [hasDelta |-> hasDelta, hasMessageKey |-> hasMessageKey, choice |-> choice,
     finishReason |-> finishReason]
PartChoices ==
    { [hasMessage |-> FALSE, message |-> NoMessage],
      [hasMessage |-> TRUE,
       message |-> [role |-> "assistant", content |-> "hi", toolCalls |-> AbsentList]],
      [hasMessage |-> TRUE,
       message |-> [role |-> "user", content |-> Undefined, toolCalls |-> AbsentList]] }
ResponseParts ==
    { ResponsePart(d, TRUE, c, f) : d \in BOOLEAN, c \in PartChoices, f \in {Undefined, "stop"} }
    \cup
    { ResponsePart(d, FALSE, [hasMessage |-> FALSE, message |-> NoMessage], Undefined) :
        d \in BOOLEAN }
ResponseUsages == Usages \cup {Usage(0, 5)}
Responses == [usage : ResponseUsages, choices : SeqsUpTo(ResponseParts, MaxChoices)]

Generation(text, message, finishReason) ==
    [text |-> text, message |-> message, finishReason |-> finishReason]
ChatResult(generations, tokenUsage) ==
    [generations |-> generations, tokenUsage |-> tokenUsage]

\* one pass of `for (const part of response?.choices ?? [])`
generatePart(part, usage, uuids) ==
    IF part.hasDelta THEN Throw(DeltaError)
    ELSE IF ~part.hasMessageKey THEN Throw(NoMessageInChoiceError)
    ELSE LET text == IF part.choice.hasMessage
                     THEN OrElse(part.choice.message.content, "") ELSE ""
             message == mistralAIResponseToChatMessage(part.choice, usage, uuids)
         IN  IF ~message.ok THEN Throw(message.error)
             ELSE Return(Generation(text, message.value, part.finishReason))

\* a loop body that looks for the message before it looks for the delta
generateNonStreamingMessageFirst(response, uuids) ==
    LET tokenUsage == AddUsage(EmptyTokenUsage, response.usage)
        swapped(part) ==
            IF ~part.hasMessageKey THEN Throw(NoMessageInChoiceError)
            ELSE generatePart(part, response.usage, uuids)
        out == [i \in DOMAIN response.choices |-> swapped(response.choices[i])]
    IN  IF \E i \in DOMAIN out : ~out[i].ok
        THEN Throw(out[CHOOSE i \in DOMAIN out :
                        ~out[i].ok /\ \A j \in 1..(i - 1) : out[j].ok].error)
        ELSE Return(ChatResult([i \in DOMAIN out |-> out[i].value], tokenUsage))

\* _generate after `await this.completionWithRetry(input, false)`: the usage
\* is added to tokenUsage, the choices are decoded in order and the first
\* throw ends the call
generateNonStreaming(response, uuids) ==
    LET tokenUsage == AddUsage(EmptyTokenUsage, response.usage)
        out == [i \in DOMAIN response.choices |->
                    generatePart(response.choices[i], response.usage, uuids)]
    IN  IF \E i \in DOMAIN out : ~out[i].ok
        THEN Throw(out[CHOOSE i \in DOMAIN out :
                        ~out[i].ok /\ \A j \in 1..(i - 1) : out[j].ok].error)
        ELSE Return(ChatResult([i \in DOMAIN out |-> out[i].value], tokenUsage))

InitGenerate ==
    /\ gResponse \in Responses
    /\ gOut = [op |-> "none", res |-> NotRun]
    /\ IdleContent /\ IdleBuild /\ IdleDelta /\ IdleDecode /\ IdleStream
    /\ IdleRequest /\ IdleConcurrent /\ IdleTransport /\ IdleLate

Generate ==
    /\ gOut.op = "none"
    /\ \E uuids \in {[i \in 1..MaxCalls |-> "uuid1"]} :
          gOut' = [op |-> "generate", res |-> generateNonStreaming(gResponse, uuids)]
    /\ UNCHANGED <<gResponse, contentVars, buildVars, deltaVars, decodeVars, streamVars,
                   requestVars, concurrentVars, transportVars, lateVars>>

NextGenerate == Generate

SpecGenerate == InitGenerate /\ [][NextGenerate]_vars

Generated == gOut.op = "generate"
HasDeltaField(part) == part.hasDelta
HasNoMessage(part) == ~part.hasMessageKey \/ ~part.choice.hasMessage
Offending == {i \in DOMAIN gResponse.choices :
                HasDeltaField(gResponse.choices[i]) \/ HasNoMessage(gResponse.choices[i])}
FirstOffending == CHOOSE i \in Offending : \A j \in Offending : i <= j
MissingMessageErrors == {NoMessageInChoiceError, "No message found in response"}

\* C18: when a choice of the response has a delta field or no message, the
\* call throws and returns nothing, also for the choices decoded before that
\* one; the error of the first such choice is the streaming-not-supported
\* error when it has a delta field (with or without a message) and a
\* missing-message error otherwise.
C18_NonStreamDecodeErrors ==
    Generated =>
        IF Offending # {}
        THEN /\ ~gOut.res.ok
             /\ gOut.res.value = Null
             /\ IF HasDeltaField(gResponse.choices[FirstOffending])
                THEN gOut.res.error = DeltaError
                ELSE gOut.res.error \in MissingMessageErrors
        ELSE /\ gOut.res.ok
             /\ Len(gOut.res.value.generations) = Len(gResponse.choices)

C18_Witness ==
    /\ Generated /\ Len(gResponse.choices) = 2
    /\ Offending = {2}
    /\ gResponse.choices[2].hasDelta /\ gResponse.choices[2].hasMessageKey
    /\ gResponse.choices[2].choice.hasMessage
    /\ gOut.res.error = DeltaError

----------------------------------------------------------------------------
(* The token usage a streaming call returns *)

\* the usage of all the events received, added up field by field
RECURSIVE SumUsage(_)
SumUsage(events) ==
    IF events = <<>> THEN EmptyTokenUsage
    ELSE AddUsage(SumUsage(SubSeq(events, 1, Len(events) - 1)), events[Len(events)].usage)

\* C19: the TokenUsage a call returns is the sum, taken separately for
\* completionTokens, promptTokens and totalTokens, of the usage of all the
\* response parts it received; here for the streaming path, whose parts are
\* the stream events.
C19_UsageIsSummed ==
    call.pc = "done" => call.result.estimatedTokenUsage = SumUsage(call.events)

----------------------------------------------------------------------------
(* SpecTransport: the catch block of completionWithRetry on one error *)

\* an error message is a sequence of tokens; a search string is the sequence
\* of its tokens
MessageTokens == {"status", "Status", ":", " ", "400", "validation", "failed", "x"}
StatusColon400 == <<"status", ":", " ", "400">>
Status400 == <<"status", " ", "400">>
ValidationFailed == <<"validation", " ", "failed">>

\* String.prototype.includes
Includes(text, search) ==
    \E i \in 0..(Len(text) - Len(search)) : SubSeq(text, i + 1, i + Len(search)) = search
\* String.prototype.toLowerCase
ToLowerCase(text) == [i \in DOMAIN text |-> IF text[i] = "Status" THEN "status" ELSE text[i]]

\* the status the catch block gives a reclassified error
BadRequest == 400
NoStatus == [has |-> FALSE, val |-> 0]
SomeStatus(n) == [has |-> TRUE, val |-> n]
NoMessageText == [has |-> FALSE, text |-> <<>>]
MessageText(text) == [has |-> TRUE, text |-> text]

\* what the transport throws: message and status may be missing
TransportErrors ==
    [message : {NoMessageText} \cup {MessageText(t) : t \in SeqsUpTo(MessageTokens, MaxTokens)},
     status : {NoStatus, SomeStatus(BadRequest), SomeStatus(BadRequest + 100)},
     code : {Undefined, "ECONNRESET"}]

NotCaught == [op |-> "none", rethrown |-> FALSE, error |-> Null]
Rethrown(e) == [op |-> "catch", rethrown |-> TRUE, error |-> e]

\* a catch block that compares all three search strings as they are
completionWithRetryCatchCaseSensitive(e) ==
    IF /\ e.message.has
       /\ \/ Includes(e.message.text, StatusColon400)
          \/ Includes(e.message.text, Status400)
          \/ Includes(e.message.text, ValidationFailed)
    THEN Rethrown([e EXCEPT !.status = SomeStatus(BadRequest)])
    ELSE Rethrown(e)

\* catch (e) { if (...) { e.status = 400; } throw e; }
completionWithRetryCatch(e) ==
    IF /\ e.message.has
       /\ \/ Includes(e.message.text, StatusColon400)
          \/ Includes(ToLowerCase(e.message.text), Status400)
          \/ Includes(e.message.text, ValidationFailed)
    THEN Rethrown([e EXCEPT !.status = SomeStatus(BadRequest)])
    ELSE Rethrown(e)

InitTransport ==
    /\ tError \in TransportErrors
    /\ tOut = NotCaught
    /\ IdleContent /\ IdleBuild /\ IdleDelta /\ IdleDecode /\ IdleStream
    /\ IdleRequest /\ IdleGenerate /\ IdleConcurrent /\ IdleLate

Catch ==
    /\ tOut.op = "none"
    /\ tOut' = completionWithRetryCatch(tError)
    /\ UNCHANGED <<tError, contentVars, buildVars, deltaVars, decodeVars, streamVars,
                   requestVars, generateVars, concurrentVars, lateVars>>

NextTransport == Catch

SpecTransport == InitTransport /\ [][NextTransport]_vars

Caught == tOut.op = "catch"
\* the message contains one of the three search strings as written
ContainsAsWritten ==
    /\ tError.message.has
    /\ \/ Includes(tError.message.text, StatusColon400)
       \/ Includes(tError.message.text, Status400)
       \/ Includes(tError.message.text, ValidationFailed)
\* the message contains "status 400" in some letter case
ContainsStatus400AnyCase ==
    /\ tError.message.has
    /\ \E i \in 0..(Len(tError.message.text) - Len(Status400)) :
          /\ tError.message.text[i + 1] \in {"status", "Status"}
          /\ SubSeq(tError.message.text, i + 2, i + Len(Status400)) = Tail(Status400)

----------------------------------------------------------------------------
(* SpecStreamUsage: a streaming call on an instance constructed with or
   without fields.streamUsage, made with or without options.streamUsage *)

Flags == {AbsentFlag, PresentFlag(TRUE), PresentFlag(FALSE)}

\* a call made with the given constructor field and call option
StreamCall(field, option) ==
    [NewCall EXCEPT !.streamUsage = constructorStreamUsage(field),
                    !.optionStreamUsage = option]

UsageStreamEvents ==
    { StreamEvent(TRUE, TRUE, PresentIndex(0), StreamDelta("a", AbsentList)),
      StreamEvent(TRUE, TRUE, PresentIndex(0), StreamDelta("", AbsentList)),
      UsageEvent(PresentIndex(0), StreamDelta("a", AbsentList), Usage(3, 10)),
      UsageEvent(PresentIndex(0), StreamDelta("", AbsentList), Usage(2, 5)),
      UsageEvent(AbsentIndex, StreamDelta("b", AbsentList), Usage(2, 5)) }

InitStreamUsage ==
    /\ call \in {StreamCall(field, option) : field \in Flags, option \in Flags}
    /\ aborted = FALSE
    /\ IdleContent /\ IdleBuild /\ IdleDelta /\ IdleDecode /\ IdleExt

\* the stream delivers its next event
UsageNextEvent ==
    /\ call.pc = "await"
    /\ call.received < MaxCallEvents
    /\ \E event \in UsageStreamEvents : \E uuids \in DrawsFor(event) :
          call' = streamResponseChunks(call, event, aborted, uuids)
    /\ UNCHANGED <<aborted, contentVars, buildVars, deltaVars, decodeVars, extVars>>

NextStreamUsage == UsageNextEvent \/ Consume \/ EndStream

SpecStreamUsage == InitStreamUsage /\ [][NextStreamUsage]_vars

LastTaken == call.events[Len(call.events)]
ChunkPending == call.pc = "yielded"

\* C21: in a call made with options.streamUsage = false no yielded chunk
\* carries usage metadata, whatever this.streamUsage is; in a call made with
\* options.streamUsage = true the chunk decoded from an event carries the
\* usage of that event.
C21_OptionDecidesUsage ==
    ChunkPending =>
        /\ call.optionStreamUsage = PresentFlag(FALSE) =>
              ~call.pending.message.usage_metadata.has
        /\ call.optionStreamUsage = PresentFlag(TRUE) =>
              call.pending.message.usage_metadata = UsageMetadata(LastTaken.usage)

----------------------------------------------------------------------------
(* SpecStructured: withStructuredOutput builds a pipeline, which is then
   invoked on one model result *)

\* the target schema: a zod schema, or a record whose name may be a string
\* and whose parameters may be an object, null or missing
Schema(isZod, name, parameters, description) ==
    [isZod |-> isZod, name |-> name, parameters |-> parameters, description |-> description]
Schemas ==
    { Schema(TRUE, Undefined, "absent", d) : d \in {Undefined, "A person"} }
    \cup
    { Schema(FALSE, n, p, d) : n \in {Undefined, "get_person"},
                               p \in {"absent", "null", "object"},
                               d \in {Undefined, "A person"} }
\* config?.name, config?.method, config?.includeRaw
Configs ==
    [name : {Undefined, "Person"},
     method : {Undefined, "jsonMode", "functionCalling"},
     includeRaw : {AbsentFlag, PresentFlag(TRUE), PresentFlag(FALSE)}]

isZodSchema(schema) == schema.isZod
\* typeof schema.name === "string" && typeof schema.parameters === "object"
\* && schema.parameters != null
IsFunctionDefinition(schema) == schema.name # Undefined /\ schema.parameters = "object"

FunctionDefinition(name, description, parameters) ==
    [name |-> name, description |-> description, parameters |-> parameters]
FunctionTool(function) == [type |-> "function", function |-> function]

\* the output parsers
StructuredOutputParser == [kind |-> "StructuredOutputParser", keyName |-> Undefined]
JsonOutputParser == [kind |-> "JsonOutputParser", keyName |-> Undefined]
JsonOutputKeyToolsParser(keyName) == [kind |-> "JsonOutputKeyToolsParser", keyName |-> keyName]

\* this.bind(...) with its parser and the includeRaw switch
Pipeline(responseFormat, tools, toolChoice, outputParser, includeRaw) ==
    [response_format |-> responseFormat, tools |-> tools, tool_choice |-> toolChoice,
     outputParser |-> outputParser, includeRaw |-> includeRaw]
NoPipeline == Pipeline(Undefined, <<>>, Undefined, JsonOutputParser, FALSE)

\* the three forced-tool-call bindings
ZodBinding(schema, functionName, includeRaw) ==
    Pipeline(Undefined,
             <<FunctionTool(FunctionDefinition(functionName, schema.description,
                                               "zodToJsonSchema(schema)"))>>,
             "any", JsonOutputKeyToolsParser(functionName), includeRaw)
RecordBinding(schema, functionName, includeRaw) ==
    Pipeline(Undefined,
             <<FunctionTool(FunctionDefinition(functionName,
                    IF schema.description = Undefined THEN "" ELSE schema.description,
                    "schema"))>>,
             "any", JsonOutputKeyToolsParser(functionName), includeRaw)
DefinitionBinding(schema, keyName, includeRaw) ==
    Pipeline(Undefined,
             <<FunctionTool(FunctionDefinition(schema.name, schema.description,
                                               "schema.parameters"))>>,
             "any", JsonOutputKeyToolsParser(keyName), includeRaw)
JsonModeBinding(schema, includeRaw) ==
    Pipeline("json_object", <<>>, Undefined,
             IF isZodSchema(schema) THEN StructuredOutputParser ELSE JsonOutputParser,
             includeRaw)

\* a builder that binds the tool in json mode too
withStructuredOutputAlwaysTool(schema, config) ==
    LET functionName == IF config.name = Undefined THEN "extract" ELSE config.name
        includeRaw == config.includeRaw.has /\ config.includeRaw.val
        forced == RecordBinding(schema, functionName, includeRaw)
    IN  IF config.method = "jsonMode"
        THEN [forced EXCEPT !.response_format = "json_object"]
        ELSE forced

\* a builder that names the tool of a function definition after the config
withStructuredOutputConfigName(schema, config) ==
    LET functionName == IF config.name = Undefined THEN "extract" ELSE config.name
        includeRaw == config.includeRaw.has /\ config.includeRaw.val
    IN  IF config.method = "jsonMode" THEN JsonModeBinding(schema, includeRaw)
        ELSE IF isZodSchema(schema) THEN ZodBinding(schema, functionName, includeRaw)
        ELSE RecordBinding(schema, functionName, includeRaw)

\* a builder that keeps the configured name as the key of the parser
withStructuredOutputStaleKey(schema, config) ==
    LET functionName == IF config.name = Undefined THEN "extract" ELSE config.name
        includeRaw == config.includeRaw.has /\ config.includeRaw.val
    IN  IF config.method = "jsonMode" THEN JsonModeBinding(schema, includeRaw)
        ELSE IF isZodSchema(schema) THEN ZodBinding(schema, functionName, includeRaw)
        ELSE IF IsFunctionDefinition(schema)
        THEN DefinitionBinding(schema, functionName, includeRaw)
        ELSE RecordBinding(schema, functionName, includeRaw)

\* withStructuredOutput up to the choice on includeRaw: what is bound to the
\* model and which parser reads its result
withStructuredOutput(schema, config) ==
    LET name == config.name
        method == config.method
        includeRaw == config.includeRaw.has /\ config.includeRaw.val
        functionName == IF name = Undefined THEN "extract" ELSE name
    IN  IF method = "jsonMode" THEN JsonModeBinding(schema, includeRaw)
        ELSE IF isZodSchema(schema) THEN ZodBinding(schema, functionName, includeRaw)
        ELSE IF IsFunctionDefinition(schema)
        THEN \* functionName = schema.name
             DefinitionBinding(schema, schema.name, includeRaw)
        ELSE RecordBinding(schema, functionName, includeRaw)

\* the result of the bound model, and whether the output parser accepts it
RawResults == [id : {"message1", "message2"}, parses : BOOLEAN]

\* outputParser.invoke(raw): the parsed value, or a thrown exception
outputParserInvoke(outputParser, raw) ==
    IF raw.parses THEN Return("parsed " \o raw.id)
    ELSE Throw("OutputParserException")

NullParsed == [isNull |-> TRUE, value |-> ""]
Parsed(value) == [isNull |-> FALSE, value |-> value]
NoRaw == [id |-> Undefined, parses |-> FALSE]
ParsedOnly(value) == [shape |-> "parsed", raw |-> NoRaw, parsed |-> Parsed(value)]
RawAndParsed(raw, parsed) == [shape |-> "raw and parsed", raw |-> raw, parsed |-> parsed]

\* a pipeline whose includeRaw branch has no fallback
invokePipelineNoFallback(pipeline, raw) ==
    LET parsed == outputParserInvoke(pipeline.outputParser, raw)
    IN  IF ~parsed.ok THEN Throw(parsed.error)
        ELSE IF ~pipeline.includeRaw THEN Return(ParsedOnly(parsed.value))
        ELSE Return(RawAndParsed(raw, Parsed(parsed.value)))

\* the pipeline applied to the result of the model: llm.pipe(outputParser)
\* without includeRaw; with it {raw: llm} followed by parserAssign, whose
\* fallback parserNone assigns parsed: null when parserAssign throws
invokePipeline(pipeline, raw) ==
    LET parsed == outputParserInvoke(pipeline.outputParser, raw)
    IN  IF ~pipeline.includeRaw
        THEN IF parsed.ok THEN Return(ParsedOnly(parsed.value)) ELSE Throw(parsed.error)
        ELSE Return(RawAndParsed(raw, IF parsed.ok THEN Parsed(parsed.value) ELSE NullParsed))

InitStructured ==
    /\ sInput \in [schema : Schemas, config : Configs, raw : RawResults]
    /\ sOut = [op |-> "none", pipeline |-> NoPipeline, res |-> NotRun]
    /\ IdleContent /\ IdleBuild /\ IdleDelta /\ IdleDecode /\ IdleStream
    /\ IdleRequest /\ IdleGenerate /\ IdleConcurrent /\ IdleTransport
    /\ IdleTools /\ IdleHooks

StructuredUnchanged ==
    UNCHANGED <<sInput, contentVars, buildVars, deltaVars, decodeVars, streamVars,
                requestVars, generateVars, concurrentVars, transportVars,
                toolVars, hookVars>>

WithStructuredOutput ==
    /\ sOut.op = "none"
    /\ sOut' = [sOut EXCEPT !.op = "built",
                            !.pipeline = withStructuredOutput(sInput.schema, sInput.config)]
    /\ StructuredUnchanged

InvokePipeline ==
    /\ sOut.op = "built"
    /\ sOut' = [sOut EXCEPT !.op = "invoked",
                            !.res = invokePipeline(sOut.pipeline, sInput.raw)]
    /\ StructuredUnchanged

NextStructured == WithStructuredOutput \/ InvokePipeline

SpecStructured == InitStructured /\ [][NextStructured]_vars

PipelineBuilt == sOut.op \in {"built", "invoked"}
ForcedToolCall == PipelineBuilt /\ sInput.config.method # "jsonMode"
ConfiguredName ==
    IF sInput.config.name = Undefined THEN "extract" ELSE sInput.config.name
BoundTool == sOut.pipeline.tools[1]

\* C22: with method jsonMode the bound request asks for the json_object
\* response format and binds no tool and no tool choice; with any other or
\* absent method it binds exactly one tool with tool_choice "any" and no
\* response format.
C22_OneStrategy ==
    PipelineBuilt =>
        IF sInput.config.method = "jsonMode"
        THEN /\ sOut.pipeline.response_format = "json_object"
             /\ sOut.pipeline.tools = <<>>
             /\ sOut.pipeline.tool_choice = Undefined
        ELSE /\ sOut.pipeline.response_format = Undefined
             /\ Len(sOut.pipeline.tools) = 1
             /\ BoundTool.type = "function"
             /\ sOut.pipeline.tool_choice = "any"

C22_Witness ==
    /\ PipelineBuilt /\ sInput.config.method = "functionCalling"
    /\ sInput.schema.isZod /\ Len(sOut.pipeline.tools) = 1
    /\ sOut.pipeline.tool_choice = "any"

\* C23 as stated: in forced-tool-call mode the bound tool is named with the
\* configured name, or "extract" when none is configured, for a zod schema, a
\* plain record and a record that has its own name and parameters.
C23_ToolNamedAfterConfig ==
    ForcedToolCall => BoundTool.function.name = ConfiguredName

\* C23 amended: in forced-tool-call mode the bound tool is named with the
\* configured name, or "extract" when none is configured, for a zod schema
\* and for a plain record; a record with a string name and object parameters
\* is bound as the function definition it is, under its own name.
C23_ToolNamedAfterSchema ==
    ForcedToolCall =>
        BoundTool.function.name =
            IF ~sInput.schema.isZod /\ sInput.schema.name # Undefined
                                   /\ sInput.schema.parameters = "object"
            THEN sInput.schema.name
            ELSE ConfiguredName

C23_Witness ==
    /\ ForcedToolCall /\ ~sInput.schema.isZod
    /\ sInput.schema.name = "get_person" /\ sInput.schema.parameters = "object"
    /\ sInput.config.name = "Person"
    /\ BoundTool.function.name = "get_person"

IncludeRaw == sInput.config.includeRaw = PresentFlag(TRUE)
Invoked == sOut.op = "invoked"

\* C24: with includeRaw the pipeline returns raw and parsed, raw being the
\* result of the model and parsed the parsed value or null when the parser
\* throws; without includeRaw it returns the parsed value alone and throws
\* when the parser throws.
C24_ParseFailureRecovery ==
    Invoked =>
        LET parsed == outputParserInvoke(sOut.pipeline.outputParser, sInput.raw)
        IN  IF IncludeRaw
            THEN /\ sOut.res.ok
                 /\ sOut.res.value.shape = "raw and parsed"
                 /\ sOut.res.value.raw = sInput.raw
                 /\ sOut.res.value.parsed =
                        IF parsed.ok THEN Parsed(parsed.value) ELSE NullParsed
            ELSE IF parsed.ok
            THEN sOut.res = Return(ParsedOnly(parsed.value))
            ELSE ~sOut.res.ok /\ sOut.res.error = parsed.error

C24_Witness ==
    /\ Invoked /\ IncludeRaw /\ ~sInput.raw.parses
    /\ sOut.res.ok /\ sOut.res.value.parsed.isNull
    /\ sOut.res.value.raw.id = "message2"

\* C29: in forced-tool-call mode the name of the bound tool is the key under
\* which the output parser looks up the tool call, for a zod schema, a plain
\* record and a record with its own name and parameters.
C29_ParserKeyIsToolName ==
    ForcedToolCall =>
        /\ sOut.pipeline.outputParser.kind = "JsonOutputKeyToolsParser"
        /\ sOut.pipeline.outputParser.keyName = BoundTool.function.name

C29_Witness ==
    /\ ForcedToolCall /\ ~sInput.schema.isZod
    /\ sInput.schema.name = "get_person" /\ sInput.schema.parameters = "object"
    /\ sInput.config.name = "Person"
    /\ sOut.pipeline.outputParser.keyName = "get_person"
    /\ sOut.op = "invoked"

----------------------------------------------------------------------------
(* The message mistralAIResponseToChatMessage builds for a non-assistant role *)

\* C25: decoding a choice whose message has a role other than assistant never
\* fails: it gives a human message with the text content of the message ("" when
\* absent), no tool calls, no invalid tool calls and no usage metadata,
\* whatever tool calls the message and usage the response carry.
C25_NonAssistantIsHuman ==
    (rOut.op = "decode" /\ rChoice.hasMessage /\ rChoice.message.role # "assistant") =>
        /\ rOut.res.ok
        /\ rOut.res.value.kind = "human"
        /\ rOut.res.value.content =
              (IF rChoice.message.content = Undefined THEN "" ELSE rChoice.message.content)
        /\ rOut.res.value.tool_calls = <<>>
        /\ rOut.res.value.invalid_tool_calls = <<>>
        /\ rOut.res.value.usage_metadata = NoUsageMetadata

C25_Witness ==
    /\ rOut.op = "decode" /\ rChoice.hasMessage /\ rChoice.message.role = "tool"
    /\ rChoice.message.content = Undefined /\ rUsage.has
    /\ Len(RawCalls) = 2 /\ ~Parses(RawCalls[1])
    /\ rOut.res.ok /\ rOut.res.value.kind = "human" /\ rOut.res.value.content = ""

----------------------------------------------------------------------------
(* String content under the content translator *)

\* C26: for every role that getRole maps, content given as a plain string is
\* translated to the identical string, the empty string included; the role
\* has no influence on it.
C26_StringUnchanged ==
    (ContentTranslated /\ cContent.kind = "string" /\ cRole \in KnownTypes) =>
        /\ cOut.res.ok
        /\ cOut.res.value.kind = "string"
        /\ cOut.res.value.text = cContent.text
        /\ cOut.res.value = cContent

C26_Witness ==
    /\ cOut.op = "getContent" /\ cContent = StringContent("hi") /\ cRole = "tool"
    /\ cOut.res = Return(StringContent("hi"))

----------------------------------------------------------------------------
(* SpecTools: _convertToolToMistralTool applied to a list of descriptors *)

NoFunction == [name |-> Undefined, description |-> Undefined, parameters |-> Undefined]
\* a descriptor that has a function field: a provider tool
ProviderTool(function) ==
    [hasFunction |-> TRUE, type |-> "function", function |-> function,
     name |-> Undefined, description |-> Undefined, schema |-> Undefined]
\* a descriptor with name, optional description and schema
StructuredTool(name, description, schema) ==
    [hasFunction |-> FALSE, type |-> Undefined, function |-> NoFunction,
     name |-> name, description |-> description, schema |-> schema]

zodToJsonSchema(schema) == "json schema of " \o schema

ToolDescriptors ==
    { ProviderTool([name |-> n, description |-> Undefined, parameters |-> "{}"]) :
        n \in {"search", "lookup"} }
    \cup
    { StructuredTool(n, d, "zodSchema") : n \in {"add", "mul"}, d \in {Undefined, "", "Adds"} }

\* a map callback that takes an empty description for an absent one
convertOneToolEmptyIsAbsent(tool) ==
    IF tool.hasFunction THEN tool
    ELSE ProviderTool([name |-> tool.name,
                       description |-> IF tool.description \in {Undefined, ""}
                                       THEN "Tool: " \o tool.name ELSE tool.description,
                       parameters |-> zodToJsonSchema(tool.schema)])

\* the callback of tools.map
convertOneTool(tool) ==
    IF tool.hasFunction THEN tool
    ELSE LET description == IF tool.description = Undefined
                            THEN "Tool: " \o tool.name ELSE tool.description
         IN  ProviderTool([name |-> tool.name, description |-> description,
                           parameters |-> zodToJsonSchema(tool.schema)])

convertToolToMistralTool(tools) == [i \in DOMAIN tools |-> convertOneTool(tools[i])]

InitTools ==
    /\ vTools \in SeqsUpTo(ToolDescriptors, MaxTools)
    /\ vOut = [op |-> "none", tools |-> <<>>]
    /\ IdleContent /\ IdleBuild /\ IdleDelta /\ IdleDecode /\ IdleStream
    /\ IdleRequest /\ IdleGenerate /\ IdleConcurrent /\ IdleTransport
    /\ IdleStruct /\ IdleHooks

ConvertTools ==
    /\ vOut.op = "none"
    /\ vOut' = [op |-> "convert", tools |-> convertToolToMistralTool(vTools)]
    /\ UNCHANGED <<vTools, contentVars, buildVars, deltaVars, decodeVars, streamVars,
                   requestVars, generateVars, concurrentVars, transportVars,
                   structVars, hookVars>>

NextTools == ConvertTools

SpecTools == InitTools /\ [][NextTools]_vars

\* C27: the converted list has the length and the order of the input; a
\* descriptor with a function field is passed through unchanged; any other
\* descriptor becomes a function tool with the descriptor's name, its
\* description, or "Tool: " followed by the name when the description is
\* absent, and the JSON schema of its schema as parameters.
C27_ToolSchemaConverter ==
    vOut.op = "convert" =>
        /\ Len(vOut.tools) = Len(vTools)
        /\ \A i \in DOMAIN vTools :
              IF vTools[i].hasFunction
              THEN vOut.tools[i] = vTools[i]
              ELSE /\ vOut.tools[i].hasFunction
                   /\ vOut.tools[i].type = "function"
                   /\ vOut.tools[i].function.name = vTools[i].name
                   /\ vOut.tools[i].function.description =
                         (IF vTools[i].description = Undefined
                          THEN "Tool: " \o vTools[i].name
                          ELSE vTools[i].description)
                   /\ vOut.tools[i].function.parameters = zodToJsonSchema(vTools[i].schema)

C27_Witness ==
    /\ vOut.op = "convert" /\ Len(vTools) = 2
    /\ vTools[1].hasFunction /\ vTools[1].function.name = "lookup"
    /\ ~vTools[2].hasFunction /\ vTools[2].name = "mul" /\ vTools[2].description = Undefined
    /\ vOut.tools[1] = vTools[1]
    /\ vOut.tools[2].function.description = "Tool: mul"

----------------------------------------------------------------------------
(* SpecHooks: the HTTP hooks of an instance and of its HTTP client *)

HookKinds == {"beforeRequest", "requestError", "response"}
\* the hook functions a caller configures, and one the caller registered on
\* a client of its own
ConfiguredHooks == {"logRequest", "signRequest"}
CallerHook == "callerHook"

AbsentHooks == [has |-> FALSE, val |-> <<>>]
PresentHooks(hooks) == [has |-> TRUE, val |-> hooks]
HookLists == {AbsentHooks} \cup {PresentHooks(h) : h \in SeqsUpTo(ConfiguredHooks, MaxHooks)}

NoHooksRegistered == [beforeRequest |-> <<>>, requestError |-> <<>>, response |-> <<>>]
NoHttpClient == [has |-> FALSE, registered |-> NoHooksRegistered]
\* new MistralAIHTTPClient()
NewHttpClient == [has |-> TRUE, registered |-> NoHooksRegistered]
\* clients a caller passes in: a fresh one, and ones the caller has already
\* registered hooks on, none of them twice
SuppliedHttpClients ==
    { NewHttpClient,
      [has |-> TRUE, registered |-> [NoHooksRegistered EXCEPT !.beforeRequest = <<CallerHook>>]],
      [has |-> TRUE, registered |-> [NoHooksRegistered EXCEPT !.beforeRequest = <<"logRequest">>,
                                                               !.response = <<CallerHook>>]] }

RemoveAt(s, i) == [j \in 1..(Len(s) - 1) |-> IF j < i THEN s[j] ELSE s[j + 1]]
findIndex(s, x) == IF \E i \in DOMAIN s : s[i] = x
                 THEN CHOOSE i \in DOMAIN s : s[i] = x /\ \A j \in 1..(i - 1) : s[j] # x
                 ELSE 0

\* httpClient?.addHook(kind, hook)
addHook(client, kind, hook) ==
    IF ~client.has THEN client
    ELSE [client EXCEPT !.registered[kind] = Append(@, hook)]

\* httpClient?.removeHook(kind, hook): the first registration of the hook goes
removeHook(client, kind, hook) ==
    IF ~client.has THEN client
    ELSE LET index == findIndex(client.registered[kind], hook)
         IN  IF index > 0
             THEN [client EXCEPT !.registered[kind] = RemoveAt(@, index)]
             ELSE client

RECURSIVE AddEach(_, _, _)
\* for (const hook of hooks) this.httpClient?.addHook(kind, hook)
AddEach(client, kind, hooks) ==
    IF hooks = <<>> THEN client
    ELSE AddEach(addHook(client, kind, Head(hooks)), kind, Tail(hooks))

RECURSIVE RemoveEach(_, _, _)
\* for (const hook of hooks) this.httpClient?.removeHook(kind, hook)
RemoveEach(client, kind, hooks) ==
    IF hooks = <<>> THEN client
    ELSE RemoveEach(removeHook(client, kind, Head(hooks)), kind, Tail(hooks))

removeAllHooksFromHttpClient(this) ==
    LET c1 == IF this.beforeRequestHooks.has
              THEN RemoveEach(this.httpClient, "beforeRequest", this.beforeRequestHooks.val)
              ELSE this.httpClient
        c2 == IF this.requestErrorHooks.has
              THEN RemoveEach(c1, "requestError", this.requestErrorHooks.val)
              ELSE c1
        c3 == IF this.responseHooks.has
              THEN RemoveEach(c2, "response", this.responseHooks.val)
              ELSE c2
    IN  [this EXCEPT !.httpClient = c3]

\* [lists].some(hook => hook && hook.length > 0)
hasHooks(this) ==
    \E list \in {this.beforeRequestHooks, this.requestErrorHooks, this.responseHooks} :
        list.has /\ Len(list.val) > 0

AddAllTo(this) ==
    LET c0 == IF hasHooks(this) /\ ~this.httpClient.has THEN NewHttpClient ELSE this.httpClient
        c1 == IF this.beforeRequestHooks.has
              THEN AddEach(c0, "beforeRequest", this.beforeRequestHooks.val) ELSE c0
        c2 == IF this.requestErrorHooks.has
              THEN AddEach(c1, "requestError", this.requestErrorHooks.val) ELSE c1
        c3 == IF this.responseHooks.has
              THEN AddEach(c2, "response", this.responseHooks.val) ELSE c2
    IN  [this EXCEPT !.httpClient = c3]

\* an addAllHooksToHttpClient that does not remove the hooks first
addAllHooksToHttpClientKeepRegistered(this) == AddAllTo(this)

addAllHooksToHttpClient(this) == AddAllTo(removeAllHooksFromHttpClient(this))

\* the constructor's part on hooks: the fields are stored, then all hooks added
constructorHooks(fields) ==
    addAllHooksToHttpClient([fields EXCEPT !.pc = "ready"])

InitHooks ==
    /\ hk \in [pc : {"new"}, last : {"none"}, calls : {0},
               beforeRequestHooks : HookLists, requestErrorHooks : HookLists,
               responseHooks : HookLists,
               httpClient : {NoHttpClient} \cup SuppliedHttpClients]
    /\ IdleContent /\ IdleBuild /\ IdleDelta /\ IdleDecode /\ IdleStream
    /\ IdleRequest /\ IdleGenerate /\ IdleConcurrent /\ IdleTransport
    /\ IdleStruct /\ IdleTools

HooksUnchanged ==
    UNCHANGED <<contentVars, buildVars, deltaVars, decodeVars, streamVars,
                requestVars, generateVars, concurrentVars, transportVars,
                structVars, toolVars>>

Constructor ==
    /\ hk.pc = "new"
    /\ hk' = [constructorHooks(hk) EXCEPT !.last = "constructor"]
    /\ HooksUnchanged

AddAllHooksToHttpClient ==
    /\ hk.pc = "ready" /\ hk.calls < MaxHookCalls
    /\ hk' = [addAllHooksToHttpClient(hk) EXCEPT !.last = "addAll", !.calls = @ + 1]
    /\ HooksUnchanged

RemoveAllHooksFromHttpClient ==
    /\ hk.pc = "ready" /\ hk.calls < MaxHookCalls
    /\ hk' = [removeAllHooksFromHttpClient(hk) EXCEPT !.last = "removeAll", !.calls = @ + 1]
    /\ HooksUnchanged

NextHooks == Constructor \/ AddAllHooksToHttpClient \/ RemoveAllHooksFromHttpClient

SpecHooks == InitHooks /\ [][NextHooks]_vars

Occurrences(s, x) == Cardinality({i \in DOMAIN s : s[i] = x})
ListOf(kind) == CASE kind = "beforeRequest" -> hk.beforeRequestHooks
                  [] kind = "requestError" -> hk.requestErrorHooks
                  [] kind = "response" -> hk.responseHooks
HooksJustAdded == hk.pc = "ready" /\ hk.last \in {"constructor", "addAll"}

----------------------------------------------------------------------------
(* SpecCallbacks: the new-token callbacks of one stream of chunks, read by *)
(* _generate or by a consumer that may stop pulling                        *)

CallbackStreamEvents ==
    { StreamEvent(FALSE, FALSE, AbsentIndex, NoDelta),
      StreamEvent(TRUE, FALSE, PresentIndex(0), NoDelta),
      StreamEvent(TRUE, TRUE, AbsentIndex, StreamDelta("a", AbsentList)),
      StreamEvent(TRUE, TRUE, PresentIndex(0), StreamDelta("b", AbsentList)),
      StreamEvent(TRUE, TRUE, PresentIndex(1), StreamDelta("b", AbsentList)) }

InitCallbacks ==
    /\ call \in {[NewCall EXCEPT !.runManager = given] : given \in BOOLEAN}
    /\ aborted = FALSE
    /\ IdleContent /\ IdleBuild /\ IdleDelta /\ IdleDecode /\ IdleExt

CallbackNextEvent ==
    /\ call.pc = "await"
    /\ call.received < MaxEvents
    /\ \E event \in CallbackStreamEvents : \E uuids \in DrawsFor(event) :
          call' = streamResponseChunks(call, event, aborted, uuids)
    /\ UNCHANGED <<aborted, contentVars, buildVars, deltaVars, decodeVars, extVars>>

\* the consumer leaves its loop at a chunk: the generator is closed at its
\* yield and never resumed
StopPulling ==
    /\ call.pc = "yielded"
    /\ call' = [call EXCEPT !.pc = "returned"]
    /\ UNCHANGED <<aborted, contentVars, buildVars, deltaVars, decodeVars, extVars>>

NextCallbacks == Abort \/ CallbackNextEvent \/ Consume \/ EndStream \/ StopPulling

SpecCallbacks == InitCallbacks /\ [][NextCallbacks]_vars

\* the yields so far, as the callback would report them
Yields == [k \in DOMAIN call.arrived |->
              [token |-> call.arrived[k].text, completion |-> IndexOf(call.arrived[k].index)]]
\* the generator is about to examine an event, or has examined its last one
BetweenEvents == call.pc \in {"await", "failed", "done"}
\* the last yielded chunk is with the consumer, which has not pulled again
ChunkWithConsumer == call.pc \in {"yielded", "returned"}

\* C30: the new-token callbacks are the yields in yield order, each at most
\* once and none for a skipped event; the callback of a chunk is not invoked
\* before the consumer pulls again, so a chunk at which the consumer stops
\* gets none; with a run manager every yielded chunk has had its callback
\* whenever the next event is examined, hence before an abort is raised at
\* that event.
C30_CallbacksFollowYields ==
    /\ Len(call.callbacks) <= Len(Yields)
    /\ call.callbacks = SubSeq(Yields, 1, Len(call.callbacks))
    /\ ~call.runManager => call.callbacks = <<>>
    /\ (call.runManager /\ BetweenEvents) => call.callbacks = Yields
    /\ (call.runManager /\ ChunkWithConsumer) => Len(call.callbacks) = Len(Yields) - 1

C30_Witness ==
    /\ call.runManager /\ aborted
    /\ call.pc = "failed" /\ call.error = "AbortError"
    /\ call.received = 3 /\ ~call.events[1].hasChoice
    /\ Len(call.arrived) = 1
    /\ call.callbacks = <<[token |-> "b", completion |-> 1]>>

====
